---- MODULE Spec2Model ----
(***************************************************************************)
(* Content fan-out, judging and queue pipeline of the tour guide.          *)
(*                                                                         *)
(*   content_worker / batch_content_worker   parallel/worker.py            *)
(*   ParallelExecutor                         parallel/executor.py         *)
(*   JudgeAgent, JudgmentResult               agents/judge.py,             *)
(*                                            models/judgment.py           *)
(*   ContentPipeline                          parallel/pipeline.py         *)
(*   QueueManager                             queue/manager.py             *)
(*                                                                         *)
(* Strings of the program (titles, descriptions, error texts, LLM replies) *)
(* are modelled by tokens; a reply of the LLM is modelled by the shape of  *)
(* the text that the parsing code distinguishes.                           *)
(***************************************************************************)
EXTENDS Integers, Sequences, FiniteSets, TLC

VARIABLES
    \* ---- ContentPipeline.run / ParallelExecutor ----
    pois,            \* the list handed to run(): a sequence of POI names
    pc,              \* position of run()
    idx,             \* index of the loop of the current step (1-based)
    poi_queue,       \* QueueManager.poi_queue
    results_queue,   \* QueueManager.results_queue
    judgment_queue,  \* QueueManager.judgment_queue
    pool,            \* state of the multiprocessing pool of process_poi
    worker,          \* per category: state of the worker process
    wresult,         \* per category: what the worker returned (NoValue before)
    results,         \* local `results` of process_poi
    path,            \* the path process_poi took for the current POI
    rb_keys,         \* results_by_poi: keys in insertion order
    rb_vals,         \* results_by_poi: name -> list of ContentResult
    judgments,       \* local `judgments` of run()
    judge_log,       \* per judged POI: what JudgeAgent.run did (observation)
    caps,            \* the sizes the QueueManager was constructed with
    returned,        \* what run() returned (NoResult before it returns)
    \* ---- JudgeAgent.run called on its own ----
    j_type,          \* type(input_data).__name__
    j_input,         \* input_data if it is a list (<< >> otherwise)
    j_pc,            \* position of JudgeAgent.run
    j_response,      \* what call_claude gave (NoResult before the call)
    j_data,          \* result_data after _parse_json_response
    j_calls,         \* number of call_claude calls made
    j_fallbacks,     \* number of _fallback_selection calls made
    j_result,        \* the JudgmentResult returned (NoResult before)
    j_exc,           \* the exception that escaped ("none" if none)
    j_ctor,          \* last direct JudgmentResult(...) construction (observation)
    \* ---- batch_content_worker / content_worker called on their own ----
    w_tasks,         \* list of (agent_type, poi) tuples
    w_idx,           \* loop index of batch_content_worker
    w_results,       \* local `results` of batch_content_worker
    w_pc,            \* "run" | "done" | "raised"
    w_exc,           \* the exception that escaped ("none" if none)
    w_calls,         \* log of content_worker calls (observation)
    \* ---- QueueManager called on its own ----
    flushed,         \* per queue: how many of its items the feeder thread has
                     \* written to the pipe (only those are seen by get / empty)
    q_op,            \* the caller's current or last queue operation
    q_put_log,       \* per queue: the items put, in order (observation)
    q_get_log,       \* per queue: the items got, in order (observation)
    q_ops,           \* number of queue operations started
    \* ---- observation of the fan-outs of process_all_pois ----
    launched,        \* per category: the index of the location whose worker
                     \* process it is (0: no such process)
    fan_log,         \* the locations process_poi has returned for, in call order
    \* ---- process_all_pois and process_all_pois_batched called on their own ----
    calls,           \* process_all_pois: per process_poi call the list returned
    batch_size,      \* the argument batch_size
    batch_start,     \* loop variable of the outer loop (0-based, as in the code)
    batch,           \* pois[batch_start:batch_end]
    batch_pos,       \* index in `batch` of the location the inner loop is at
    b_calls,         \* process_all_pois_batched: per process_poi call the location
    b_keys,          \* its results_by_poi: keys in insertion order
    b_vals,          \* its results_by_poi: name -> list of ContentResult
    \* ---- ContentPipeline.run_with_queue_only ----
    poi_count,       \* the argument poi_count
    qo_i,            \* number of turns of its loop that have begun
    qo_poi,          \* local `poi`: the location get_poi returned
    qo_judgment,     \* local `judgment` (NoResult before the judge returned)
    qo_exc           \* the exception its except branch caught ("none" if none)

pipeVars == <<pois, pc, idx, poi_queue, results_queue, judgment_queue, pool, worker,
              wresult, results, path, rb_keys, rb_vals, judgments, judge_log, caps,
              returned>>
judgeVars == <<j_type, j_input, j_pc, j_response, j_data, j_calls, j_fallbacks, j_result,
               j_exc, j_ctor>>
workerVars == <<w_tasks, w_idx, w_results, w_pc, w_exc, w_calls>>
queueVars == <<flushed, q_op, q_put_log, q_get_log, q_ops>>
obsVars == <<launched, fan_log>>
execVars == <<calls, batch_size, batch_start, batch, batch_pos, b_calls, b_keys, b_vals>>
qonlyVars == <<poi_count, qo_i, qo_poi, qo_judgment, qo_exc>>
restVars == <<execVars, qonlyVars>>
moreVars == <<obsVars, restVars>>
vars == <<pipeVars, judgeVars, workerVars, queueVars, moreVars>>

-----------------------------------------------------------------------------
(* Bounds of the model *)

\* longest list of POIs handed to ContentPipeline.run
MaxPois == 2
\* longest list handed to JudgeAgent.run / _fallback_selection directly
MaxContent == 2
\* longest task list handed to batch_content_worker
MaxTasks == 2

\* POI names (two POIs may share a name)
Names == {"p1", ""}

NoResult == "none"

-----------------------------------------------------------------------------
(* models/content.py *)

\* the three tasks of process_poi, in the order of the `tasks` list
AgentTypes == <<"youtube", "spotify", "history">>

\* valid_types of ContentResult.__post_init__ and JudgmentResult.__post_init__
ValidTypes == {"youtube", "spotify", "history"}

\* an agent type no agent class exists for
OtherTypes == {"podcast"}

MinScore == 0
MaxScore == 100

\* ContentResult(...): the dataclass constructor with __post_init__ validation.
\* metadata is a set of <<key, value>> pairs. The url derived from the title is
\* left out (no modelled code reads it).
ContentResult(content_type, title, description, relevance_score, agent_name, poi_name, metadata) ==
    IF ~(MinScore <= relevance_score /\ relevance_score <= MaxScore)
    THEN [raised |-> TRUE, exc |-> "ValueError", value |-> NoResult]
    ELSE IF content_type \notin ValidTypes
    THEN [raised |-> TRUE, exc |-> "ValueError", value |-> NoResult]
    ELSE [raised |-> FALSE, exc |-> "none",
          value |-> [content_type |-> content_type, title |-> title,
                     description |-> description,
                     relevance_score |-> relevance_score,
                     agent_name |-> agent_name, poi_name |-> poi_name,
                     metadata |-> metadata]]

-----------------------------------------------------------------------------
(* agents/youtube.py, spotify.py, history.py: run() and _parse_response()  *)

\* What the LLM call of a content agent does: the CLI fails (ClaudeError), or
\* it answers text that is no JSON, JSON without the agent's field, or JSON
\* with the field and a relevance_score.
AgentReplies ==
    {[kind |-> k, score |-> 0] : k \in {"cli_error", "not_json", "no_field"}}
    \cup {[kind |-> "content", score |-> s] : s \in {0, 50, 90, 150}}

\* agent.run(poi) of the agent class of agent_type: a ContentResult of that
\* type for that POI, or AgentError. Every exception inside run() is caught
\* and re-raised as AgentError (youtube.py:55-63).
AgentRun(agent_type, poi_name, reply) ==
    IF reply.kind = "cli_error"
    THEN [raised |-> TRUE, exc |-> "AgentError", msg |-> "claude_cli_failed",
          value |-> NoResult]
    ELSE IF reply.kind = "not_json"
    THEN [raised |-> TRUE, exc |-> "AgentError", msg |-> "search_failed_not_json",
          value |-> NoResult]
    ELSE IF reply.kind = "no_field"
    THEN [raised |-> TRUE, exc |-> "AgentError", msg |-> "search_failed_missing_field",
          value |-> NoResult]
    ELSE LET made == ContentResult(agent_type, "content", "text", reply.score,
                                   agent_type, poi_name, {<<"why_relevant", "text">>})
         IN  IF made.raised
             THEN [raised |-> TRUE, exc |-> "AgentError",
                   msg |-> "search_failed_bad_value", value |-> NoResult]
             ELSE [raised |-> FALSE, exc |-> "none", msg |-> "none",
                   value |-> made.value]

-----------------------------------------------------------------------------
(* parallel/worker.py *)

\* the error ContentResult of content_worker's except branch
WorkerErrorResult(agent_type, poi_name, e) ==
    ContentResult(agent_type, "agent_failed", "agent_failed_with_error", 0,
                  agent_type, poi_name,
                  {<<"error", e.msg>>, <<"error_type", e.exc>>}).value

\* a worker without the except branch: the agent's exception escapes
content_workerNoCatch(agent_type, poi_name, reply) ==
    IF agent_type \notin ValidTypes
    THEN [raised |-> TRUE, exc |-> "ValueError", value |-> NoResult,
          instantiated |-> FALSE]
    ELSE LET r == AgentRun(agent_type, poi_name, reply)
         IN  [raised |-> r.raised, exc |-> r.exc, value |-> r.value,
              instantiated |-> TRUE]

\* a worker that looks the class up with agent_classes.get(agent_type,
\* YouTubeAgent) instead of checking the type first
content_workerDefaultAgent(agent_type, poi_name, reply) ==
    LET r == AgentRun("youtube", poi_name, reply)
    IN  IF r.raised
        THEN [raised |-> FALSE, exc |-> "none",
              value |-> WorkerErrorResult("youtube", poi_name, r),
              instantiated |-> TRUE]
        ELSE [raised |-> FALSE, exc |-> "none", value |-> r.value,
              instantiated |-> TRUE]

\* content_worker(agent_type, poi). `instantiated` tells whether an agent
\* object was created.
content_worker(agent_type, poi_name, reply) ==
    IF agent_type \notin ValidTypes
    THEN [raised |-> TRUE, exc |-> "ValueError", value |-> NoResult,
          instantiated |-> FALSE]
    ELSE LET r == AgentRun(agent_type, poi_name, reply)
         IN  IF r.raised
             THEN [raised |-> FALSE, exc |-> "none",
                   value |-> WorkerErrorResult(agent_type, poi_name, r),
                   instantiated |-> TRUE]
             ELSE [raised |-> FALSE, exc |-> "none", value |-> r.value,
                   instantiated |-> TRUE]

-----------------------------------------------------------------------------
(* models/judgment.py *)

\* a constructor that validates selected_type alone
JudgmentResultNoMatchCheck(poi_name, selected_content, selected_type, reasoning, scores, all_content) ==
    IF selected_type \notin ValidTypes
    THEN [raised |-> TRUE, exc |-> "ValueError", value |-> NoResult]
    ELSE [raised |-> FALSE, exc |-> "none",
          value |-> [poi_name |-> poi_name, selected_content |-> selected_content,
                     selected_type |-> selected_type, reasoning |-> reasoning,
                     scores |-> scores, all_content |-> all_content]]

\* JudgmentResult(...): the dataclass constructor with __post_init__ validation
JudgmentResult(poi_name, selected_content, selected_type, reasoning, scores, all_content) ==
    IF selected_type \notin ValidTypes
    THEN [raised |-> TRUE, exc |-> "ValueError", value |-> NoResult]
    ELSE IF selected_content.content_type # selected_type
    THEN [raised |-> TRUE, exc |-> "ValueError", value |-> NoResult]
    ELSE [raised |-> FALSE, exc |-> "none",
          value |-> [poi_name |-> poi_name, selected_content |-> selected_content,
                     selected_type |-> selected_type, reasoning |-> reasoning,
                     scores |-> scores, all_content |-> all_content]]

-----------------------------------------------------------------------------
(* agents/judge.py *)

\* a scores dict left empty
ScoresOfEmpty(content_list) == [t \in {} |-> 0]

\* {r.content_type: r.relevance_score for r in content_list}: a dict
\* comprehension, so a later item of the same type overwrites an earlier one
ScoresOf(content_list) ==
    LET types == {content_list[k].content_type : k \in 1..Len(content_list)}
        last(t) == CHOOSE k \in 1..Len(content_list) :
                      /\ content_list[k].content_type = t
                      /\ \A m \in 1..Len(content_list) :
                            content_list[m].content_type = t => m <= k
    IN  [t \in types |-> content_list[last(t)].relevance_score]

\* priority = {"history": 3, "youtube": 2, "spotify": 1}; priority.get(t, 0)
Priority(t) ==
    IF t = "history" THEN 3
    ELSE IF t = "youtube" THEN 2
    ELSE IF t = "spotify" THEN 1
    ELSE 0

\* a sort key of the score alone
KeyLessScoreOnly(a, b) == a.relevance_score < b.relevance_score

\* the sort key of _fallback_selection, compared as Python compares tuples:
\* KeyLess(a, b) iff key(a) < key(b)
KeyLess(a, b) ==
    \/ a.relevance_score < b.relevance_score
    \/ /\ a.relevance_score = b.relevance_score
       /\ Priority(a.content_type) < Priority(b.content_type)

\* sorted(content_list, key=..., reverse=True): a stable sort, so items with
\* equal keys keep the order of the input list. InsertDesc puts x behind every
\* item whose key is not smaller.
RECURSIVE InsertDesc(_, _)
InsertDesc(x, sorted) ==
    IF sorted = << >> THEN <<x>>
    ELSE IF KeyLess(Head(sorted), x) THEN <<x>> \o sorted
    ELSE <<Head(sorted)>> \o InsertDesc(x, Tail(sorted))

RECURSIVE SortedDesc(_)
SortedDesc(content_list) ==
    IF content_list = << >> THEN << >>
    ELSE InsertDesc(content_list[Len(content_list)],
                    SortedDesc(SubSeq(content_list, 1, Len(content_list) - 1)))

\* a selection that takes the first item without sorting
FallbackSelectionFirstItem(poi_name, content_list) ==
    LET selected == content_list[1]
    IN  JudgmentResult(poi_name, selected, selected.content_type,
                       "highest_relevance_score", ScoresOf(content_list), content_list)

\* JudgeAgent._fallback_selection(poi_name, content_list)
FallbackSelection(poi_name, content_list) ==
    LET selected == SortedDesc(content_list)[1]
    IN  JudgmentResult(poi_name, selected, selected.content_type,
                       "highest_relevance_score", ScoresOf(content_list), content_list)

\* isinstance(item, ContentResult)
IsContentResult(item) == "content_type" \in DOMAIN item

\* What call_claude does for the judge: ClaudeError, or a text. The text is
\* described by what _parse_json_response and the checks after it look at:
\*   fence    "none" | "closed" (a ``` block with its closing ```) | "open" (a
\*            ``` with no closing ```)
\*   payload  what json.loads makes of the text inside: "not_json" (it raises),
\*            "number" (a number, true, false or null), "array", "string",
\*            "object"
\*   keys     for an object its keys; for an array or a string the keys that
\*            `in` finds in it
\*   selected the value under "selected"
JudgeTexts ==
    [kind : {"text"}, fence : {"none"},
     payload : {"object"}, keys : SUBSET {"selected", "reasoning", "scores"},
     selected : ValidTypes \cup OtherTypes]
    \cup [kind : {"text"}, fence : {"none"}, payload : {"array", "string"},
          keys : {{}, {"selected", "reasoning"}}, selected : {"none"}]
    \cup [kind : {"text"}, fence : {"none", "closed"},
          payload : {"not_json", "number"}, keys : {{}}, selected : {"none"}]
    \cup [kind : {"text"}, fence : {"closed"}, payload : {"object"},
          keys : {{"selected", "reasoning", "scores"}},
          selected : ValidTypes \cup OtherTypes]
    \cup [kind : {"text"}, fence : {"open"}, payload : {"object"},
          keys : {{"selected", "reasoning", "scores"}}, selected : {"history"}]

JudgeReplies ==
    {[kind |-> "cli_error", fence |-> "none", payload |-> "not_json", keys |-> {},
      selected |-> "none"]}
    \cup {t \in JudgeTexts : (t.payload = "object" /\ "selected" \notin t.keys)
                                => t.selected = "history"}

\* the empty dict
EmptyDict == [t \in {} |-> 0]

\* the scores the LLM gives in its reply (the numbers of the prompt's example)
LlmScores == [t \in ValidTypes |->
                 IF t = "youtube" THEN 75 ELSE IF t = "spotify" THEN 60 ELSE 85]

\* JudgeAgent._parse_json_response(response): str.index raises ValueError on
\* a fence that is not closed, json.loads raises JSONDecodeError
ParseJsonResponse(response) ==
    IF response.fence = "open"
    THEN [raised |-> TRUE, exc |-> "ValueError", value |-> NoResult]
    ELSE IF response.payload = "not_json"
    THEN [raised |-> TRUE, exc |-> "JSONDecodeError", value |-> NoResult]
    ELSE [raised |-> FALSE, exc |-> "none",
          value |-> [payload |-> response.payload, keys |-> response.keys,
                     selected |-> response.selected]]

\* `key in result_data` (judge.py:91): a dict looks up its keys, a list or a
\* str searches its items or substrings, any other JSON value raises TypeError
KeyIn(key, data) ==
    IF data.payload = "number"
    THEN [raised |-> TRUE, exc |-> "TypeError", value |-> FALSE]
    ELSE [raised |-> FALSE, exc |-> "none", value |-> key \in data.keys]

\* result_data[key] (judge.py:95-96): only a dict can be subscripted by a str
Subscript(data, key) ==
    IF data.payload # "object"
    THEN [raised |-> TRUE, exc |-> "TypeError", value |-> NoResult]
    ELSE [raised |-> FALSE, exc |-> "none", value |-> data.selected]

\* judge.py:44-45: isinstance(input_data, list)
ValidateType(input_type) == IF input_type # "list" THEN "AgentError" ELSE "none"

\* judge.py:47-52: the validation of a list ("none": it is valid)
ValidateInput(input_data) ==
    IF Len(input_data) = 0 THEN "AgentError"
    ELSE IF ~(\A k \in 1..Len(input_data) : IsContentResult(input_data[k]))
    THEN "AgentError"
    ELSE "none"

\* judge.py:44-52: the validation of the argument of run()
Validate(input_type, input_data) ==
    IF ValidateType(input_type) # "none" THEN ValidateType(input_type)
    ELSE ValidateInput(input_data)

\* judge.py:55
PoiNameOf(input_data) ==
    IF input_data[1].poi_name # "" THEN input_data[1].poi_name ELSE "Unknown POI"

\* a single option handed to the fallback selection, with its reasoning
SingleSelectionByFallback(input_data) ==
    FallbackSelection(PoiNameOf(input_data), input_data)

\* judge.py:58-67: the single option
SingleSelection(input_data) ==
    JudgmentResult(PoiNameOf(input_data), input_data[1], input_data[1].content_type,
                   "only_option", ScoresOf(<<input_data[1]>>), input_data)

\* judge.py:90-117: from the parsed result_data to the return. `next` is
\* "return" (value is the JudgmentResult), "fallback" or "raise".
CheckResponse(input_data, data) ==
    LET has_sel == KeyIn("selected", data)
        has_rea == KeyIn("reasoning", data)
        sel == Subscript(data, "selected")
        hits == {k \in 1..Len(input_data) : input_data[k].content_type = sel.value}
        first == CHOOSE k \in hits : \A m \in hits : k <= m
        scores == IF "scores" \in data.keys THEN LlmScores ELSE EmptyDict
        made == JudgmentResult(PoiNameOf(input_data), input_data[first], sel.value,
                               "llm_reasoning", scores, input_data)
    IN  IF has_sel.raised
        THEN [next |-> "raise", exc |-> has_sel.exc, value |-> NoResult]
        ELSE IF ~has_sel.value \/ ~has_rea.value
        THEN [next |-> "fallback", exc |-> "none", value |-> NoResult]
        ELSE IF sel.raised
        THEN [next |-> "raise", exc |-> sel.exc, value |-> NoResult]
        ELSE IF hits = {}
        THEN [next |-> "fallback", exc |-> "none", value |-> NoResult]
        ELSE IF made.raised
        THEN [next |-> "raise", exc |-> made.exc, value |-> NoResult]
        ELSE [next |-> "return", exc |-> "none", value |-> made.value]

\* JudgeAgent.run(input_data) for a list, as one function of the list and of
\* what call_claude does. `route` names the way taken, `calls` counts call_claude.
JudgeRun(input_data, response) ==
    LET bad == ValidateInput(input_data)
        single == SingleSelection(input_data)
        fb == FallbackSelection(PoiNameOf(input_data), input_data)
        parsed == ParseJsonResponse(response)
        checked == CheckResponse(input_data, parsed.value)
        fallback == [raised |-> fb.raised, exc |-> fb.exc, value |-> fb.value,
                     route |-> "fallback", calls |-> 1]
    IN  IF bad # "none"
        THEN [raised |-> TRUE, exc |-> bad, value |-> NoResult, route |-> "invalid",
              calls |-> 0]
        ELSE IF Len(input_data) = 1
        THEN [raised |-> single.raised, exc |-> single.exc, value |-> single.value,
              route |-> "single", calls |-> 0]
        ELSE IF response.kind = "cli_error" THEN fallback
        ELSE IF parsed.raised THEN fallback
        ELSE IF checked.next = "fallback" THEN fallback
        ELSE IF checked.next = "raise"
        THEN [raised |-> TRUE, exc |-> checked.exc, value |-> NoResult,
              route |-> "primary", calls |-> 1]
        ELSE [raised |-> FALSE, exc |-> "none", value |-> checked.value,
              route |-> "primary", calls |-> 1]

-----------------------------------------------------------------------------
(* JudgeAgent.run step by step, called on its own                          *)

JudgeScores == {0, 50, 90}
JudgeNames == {"p1", ""}

\* the ContentResults a caller can hand to the judge
JudgeItems(n) ==
    {ContentResult(t, "content", "text", sc, t, n, {}).value :
        t \in ValidTypes, sc \in JudgeScores}

\* all lists of at most MaxContent items
JudgeInputs ==
    UNION {UNION {[1..len -> JudgeItems(n)] : len \in 0..MaxContent} : n \in JudgeNames}

\* an item that is not a ContentResult (tests/test_agents.py:876)
JunkItems == {[not |-> "content_result"]}

\* the lists of at most MaxContent items with an item that is no ContentResult
JunkInputs ==
    {l \in UNION {[1..len -> JudgeItems("p1") \cup JunkItems] : len \in 1..MaxContent} :
        \E k \in 1..Len(l) : l[k] \in JunkItems}

\* the types of the arguments handed to run(): a list, or a str
\* (tests/test_agents.py:870)
InputTypes == {"list", "str"}

JudgeIdle ==
    /\ j_type = "list"
    /\ j_input = << >>
    /\ j_pc = "idle"
    /\ j_response = NoResult
    /\ j_data = NoResult
    /\ j_calls = 0
    /\ j_fallbacks = 0
    /\ j_result = NoResult
    /\ j_exc = "none"
    /\ j_ctor = NoResult

JudgeInit ==
    /\ j_type \in InputTypes
    /\ j_input \in IF j_type = "list" THEN JudgeInputs \cup JunkInputs ELSE {<< >>}
    /\ j_pc = "start"
    /\ j_response = NoResult
    /\ j_data = NoResult
    /\ j_calls = 0
    /\ j_fallbacks = 0
    /\ j_result = NoResult
    /\ j_exc = "none"
    /\ j_ctor = NoResult

\* judge.py:44-52: invalid input raises AgentError
JRejectInput ==
    /\ j_pc = "start"
    /\ Validate(j_type, j_input) # "none"
    /\ j_exc' = Validate(j_type, j_input)
    /\ j_pc' = "raised"
    /\ UNCHANGED <<j_type, j_input, j_response, j_data, j_calls, j_fallbacks, j_result, j_ctor>>
    /\ UNCHANGED <<pipeVars, workerVars, queueVars, moreVars>>

\* judge.py:58-67: one option only
JSingleOption ==
    /\ j_pc = "start"
    /\ Validate(j_type, j_input) = "none"
    /\ Len(j_input) = 1
    /\ j_result' = SingleSelection(j_input).value
    /\ j_pc' = "done"
    /\ UNCHANGED <<j_type, j_input, j_response, j_data, j_calls, j_fallbacks, j_exc, j_ctor>>
    /\ UNCHANGED <<pipeVars, workerVars, queueVars, moreVars>>

\* judge.py:70-81: the prompt is formatted and call_claude is called; any
\* exception of the call leads to the fallback
JCallClaude ==
    /\ j_pc = "start"
    /\ Validate(j_type, j_input) = "none"
    /\ Len(j_input) > 1
    /\ \E response \in JudgeReplies :
          /\ j_response' = response
          /\ j_pc' = IF response.kind = "cli_error" THEN "fallback" ELSE "parse"
    /\ j_calls' = j_calls + 1
    /\ UNCHANGED <<j_type, j_input, j_data, j_fallbacks, j_result, j_exc, j_ctor>>
    /\ UNCHANGED <<pipeVars, workerVars, queueVars, moreVars>>

\* judge.py:84-88: _parse_json_response; any exception leads to the fallback
JParse ==
    /\ j_pc = "parse"
    /\ LET parsed == ParseJsonResponse(j_response)
       IN  IF parsed.raised
           THEN /\ j_pc' = "fallback"
                /\ UNCHANGED j_data
           ELSE /\ j_pc' = "check"
                /\ j_data' = parsed.value
    /\ UNCHANGED <<j_type, j_input, j_response, j_calls, j_fallbacks, j_result, j_exc, j_ctor>>
    /\ UNCHANGED <<pipeVars, workerVars, queueVars, moreVars>>

\* judge.py:90-117: the checks of result_data and the primary return
JCheck ==
    /\ j_pc = "check"
    /\ LET checked == CheckResponse(j_input, j_data)
       IN  /\ j_pc' = IF checked.next = "return" THEN "done"
                      ELSE IF checked.next = "raise" THEN "raised"
                      ELSE "fallback"
           /\ j_result' = IF checked.next = "return" THEN checked.value ELSE j_result
           /\ j_exc' = checked.exc
    /\ UNCHANGED <<j_type, j_input, j_response, j_data, j_calls, j_fallbacks, j_ctor>>
    /\ UNCHANGED <<pipeVars, workerVars, queueVars, moreVars>>

\* the `return self._fallback_selection(poi_name, input_data)` of run()
JFallback ==
    /\ j_pc = "fallback"
    /\ j_fallbacks' = j_fallbacks + 1
    /\ j_result' = FallbackSelection(PoiNameOf(j_input), j_input).value
    /\ j_pc' = "done"
    /\ UNCHANGED <<j_type, j_input, j_response, j_data, j_calls, j_exc, j_ctor>>
    /\ UNCHANGED <<pipeVars, workerVars, queueVars, moreVars>>

\* _fallback_selection(poi_name, content_list) called directly on a non-empty
\* list of ContentResults
JDirectFallback ==
    /\ j_pc = "start"
    /\ Validate(j_type, j_input) = "none"
    /\ j_fallbacks' = j_fallbacks + 1
    /\ j_result' = FallbackSelection(PoiNameOf(j_input), j_input).value
    /\ j_pc' = "done_direct"
    /\ UNCHANGED <<j_type, j_input, j_response, j_data, j_calls, j_exc, j_ctor>>
    /\ UNCHANGED <<pipeVars, workerVars, queueVars, moreVars>>

\* JudgmentResult(...) constructed directly by a caller, with any
\* selected_type (tests/test_agents.py:802-814)
JConstruct ==
    /\ j_pc = "start"
    /\ Validate(j_type, j_input) = "none"
    /\ \E k \in 1..Len(j_input), t \in ValidTypes \cup OtherTypes :
          j_ctor' = [selected_content |-> j_input[k], selected_type |-> t,
                     made |-> JudgmentResult("p1", j_input[k], t, "text",
                                             EmptyDict, j_input)]
    /\ j_pc' = "constructed"
    /\ UNCHANGED <<j_type, j_input, j_response, j_data, j_calls, j_fallbacks, j_result, j_exc>>
    /\ UNCHANGED <<pipeVars, workerVars, queueVars, moreVars>>

JudgeNext ==
    \/ JRejectInput
    \/ JSingleOption
    \/ JCallClaude
    \/ JParse
    \/ JCheck
    \/ JFallback
    \/ JDirectFallback
    \/ JConstruct

-----------------------------------------------------------------------------
(* batch_content_worker / content_worker called on their own               *)

\* the task lists a caller can hand over: (agent_type, poi) tuples
WorkerTasks ==
    UNION {[1..len -> (ValidTypes \cup OtherTypes) \X Names] : len \in 0..MaxTasks}

WorkerIdle ==
    /\ w_tasks = << >>
    /\ w_idx = 0
    /\ w_results = << >>
    /\ w_pc = "idle"
    /\ w_exc = "none"
    /\ w_calls = << >>

WorkerInit ==
    /\ w_tasks \in WorkerTasks
    /\ w_idx = 1
    /\ w_results = << >>
    /\ w_pc = "run"
    /\ w_exc = "none"
    /\ w_calls = << >>

\* worker.py:83-87: one turn of the loop of batch_content_worker: a
\* content_worker call, whose exception (if any) escapes
WCall ==
    /\ w_pc = "run"
    /\ w_idx <= Len(w_tasks)
    /\ \E reply \in AgentReplies :
          LET agent_type == w_tasks[w_idx][1]
              poi == w_tasks[w_idx][2]
              ret == content_worker(agent_type, poi, reply)
          IN  /\ w_calls' = Append(w_calls,
                                   [agent_type |-> agent_type, poi |-> poi,
                                    reply |-> reply,
                                    instantiated |-> ret.instantiated,
                                    raised |-> ret.raised, exc |-> ret.exc,
                                    value |-> ret.value])
              /\ IF ret.raised
                 THEN /\ w_pc' = "raised"
                      /\ w_exc' = ret.exc
                      /\ UNCHANGED <<w_results, w_idx>>
                 ELSE /\ w_results' = Append(w_results, ret.value)
                      /\ w_idx' = w_idx + 1
                      /\ UNCHANGED <<w_pc, w_exc>>
    /\ UNCHANGED w_tasks
    /\ UNCHANGED <<pipeVars, judgeVars, queueVars, moreVars>>

\* worker.py:88: return results
WReturn ==
    /\ w_pc = "run"
    /\ w_idx > Len(w_tasks)
    /\ w_pc' = "done"
    /\ UNCHANGED <<w_tasks, w_idx, w_results, w_exc, w_calls>>
    /\ UNCHANGED <<pipeVars, judgeVars, queueVars, moreVars>>

WorkerNext ==
    \/ WCall
    \/ WReturn

-----------------------------------------------------------------------------
(* queue/manager.py *)

\* the default sizes of QueueManager.__init__
DefaultPoiQueueSize == 10
DefaultResultsQueueSize == 30
DefaultJudgmentQueueSize == 10

\* the sizes of a QueueManager constructed with small queues
SmallPoiQueueSize == 1
SmallResultsQueueSize == 3
SmallJudgmentQueueSize == 1

QueueSizes ==
    {[poi |-> DefaultPoiQueueSize, results |-> DefaultResultsQueueSize,
      judgment |-> DefaultJudgmentQueueSize],
     [poi |-> SmallPoiQueueSize, results |-> SmallResultsQueueSize,
      judgment |-> SmallJudgmentQueueSize]}

\* a queue that takes one item more than maxsize
CanPutOneMore(queue, maxsize) == Len(queue) <= maxsize

\* Queue.put(item, block=True, timeout=None) can go on only while the queue
\* holds fewer than maxsize items; otherwise the caller waits
CanPut(queue, maxsize) == Len(queue) < maxsize

-----------------------------------------------------------------------------
(* queue/manager.py: QueueManager over three multiprocessing.Queue          *)
(*                                                                         *)
(* multiprocessing.Queue(maxsize): put() takes one unit of a semaphore of  *)
(* maxsize units (Full if it cannot get one) and leaves the object in a    *)
(* buffer of the putting process; that process's feeder thread pickles it  *)
(* and writes it to the pipe later. get() and empty() look at the pipe    *)
(* only; get() gives the unit back. A queue is modelled by the sequence of *)
(* its items, oldest first, and by `flushed`, the number of them that are  *)
(* in the pipe already.                                                    *)

\* number of queue operations in one behaviour
MaxQueueOps == 3

QueueNames == {"poi", "results", "judgment"}

QueueOf(q) ==
    IF q = "poi" THEN poi_queue
    ELSE IF q = "results" THEN results_queue
    ELSE judgment_queue

\* the objects put on the queues directly: POIs (by name), ContentResults,
\* JudgmentResults
QResults ==
    {ContentResult("youtube", "content", "text", 50, "youtube", "p1", {}).value,
     ContentResult("history", "agent_timeout", "exceeded_timeout", 0, "history", "p1",
                   {<<"error", "timeout">>}).value}

QJudgments == {FallbackSelection("p1", <<r>>).value : r \in QResults}

QueueItems(q) ==
    IF q = "poi" THEN Names
    ELSE IF q = "results" THEN QResults
    ELSE QJudgments

\* what the feeder thread writes: the pickle of the object, that is its class
\* and the fields of its __dict__
Pickle(q, obj) ==
    IF q = "poi"
    THEN [cls |-> "POI", state |-> {<<"name", obj>>}]
    ELSE [cls |-> IF q = "results" THEN "ContentResult" ELSE "JudgmentResult",
          state |-> {<<f, obj[f]>> : f \in DOMAIN obj}]

\* what get() returns: the object rebuilt from the pickle, without running
\* __init__ or __post_init__
Unpickle(data) ==
    IF data.cls = "POI"
    THEN (CHOOSE kv \in data.state : kv[1] = "name")[2]
    ELSE [f \in {kv[1] : kv \in data.state} |->
             (CHOOSE kv \in data.state : kv[1] = f)[2]]

\* the queue after put(item)
Enqueue(queue, item) == Append(queue, item)

\* a get that takes the newest item
DequeueNewest(q, queue) ==
    [item |-> Unpickle(Pickle(q, queue[Len(queue)])),
     rest |-> SubSeq(queue, 1, Len(queue) - 1)]

\* the item get() returns and the queue it leaves
Dequeue(q, queue) ==
    [item |-> Unpickle(Pickle(q, Head(queue))), rest |-> Tail(queue)]

\* `while not queue.empty(): get_nowait()` of clear_all: how many items it
\* can remove from a queue of `len` items of which `vis` are in the pipe.
\* With nothing in the pipe empty() is true at once; otherwise the feeder may
\* write further items while the loop runs, and the loop ends when it finds
\* the pipe empty.
DrainCounts(len, vis) == IF vis = 0 THEN {0} ELSE vis..len

\* no operation
NoOp ==
    [op |-> "none", queue |-> "none", block |-> FALSE, timed |-> FALSE,
     item |-> NoResult, status |-> "none", result |-> NoResult, before |-> << >>,
     others |-> 0, prev |-> "none", quiet |-> TRUE]

\* the record of an operation the caller starts now
StartOp(op, q, block, timed, item, status, result) ==
    [op |-> op, queue |-> q, block |-> block, timed |-> timed, item |-> item,
     status |-> status, result |-> result,
     before |-> IF q \in QueueNames THEN QueueOf(q) ELSE << >>,
     others |-> 0, prev |-> q_op.op, quiet |-> q_op.others = 0]

-----------------------------------------------------------------------------
(* parallel/executor.py: ParallelExecutor.process_poi                      *)

\* what the content agents' LLM calls do inside the pipeline
PipeReplies ==
    {r \in AgentReplies : r.kind = "cli_error" \/ (r.kind = "content" /\ r.score = 50)}

\* exceptions of the pool: it cannot be created, or starmap_async / get raise
\* something other than multiprocessing.TimeoutError
PoolErrors == {[exc |-> "OSError", msg |-> "pool_failed"]}

\* a loop over tasks[1:] instead of tasks
TimeoutResultsSkipFirst(res, poi_name) ==
    res \o [k \in 1..(Len(AgentTypes) - 1) |->
               ContentResult(AgentTypes[k + 1], "agent_timeout", "exceeded_timeout", 0,
                             AgentTypes[k + 1], poi_name, {<<"error", "timeout">>}).value]

\* timeout results marked like the results of a failed fan-out
TimeoutResultsAsFailure(res, poi_name) ==
    res \o [k \in 1..Len(AgentTypes) |->
               ContentResult(AgentTypes[k], "agent_timeout", "exceeded_timeout", 0,
                             AgentTypes[k], poi_name,
                             {<<"error", "pool_failed">>, <<"error_type", "TimeoutError">>}).value]

\* executor.py:85-96: one timeout ContentResult per task, appended to results
TimeoutResults(res, poi_name) ==
    res \o [k \in 1..Len(AgentTypes) |->
               ContentResult(AgentTypes[k], "agent_timeout", "exceeded_timeout", 0,
                             AgentTypes[k], poi_name, {<<"error", "timeout">>}).value]

\* the metadata without "error_type"
ExceptionResultsNoType(res, poi_name, e) ==
    res \o [k \in 1..Len(AgentTypes) |->
               ContentResult(AgentTypes[k], "agent_failed", "parallel_execution_failed",
                             0, AgentTypes[k], poi_name, {<<"error", e.msg>>}).value]

\* executor.py:98-112: one failure ContentResult per task, appended to results
ExceptionResults(res, poi_name, e) ==
    res \o [k \in 1..Len(AgentTypes) |->
               ContentResult(AgentTypes[k], "agent_failed", "parallel_execution_failed",
                             0, AgentTypes[k], poi_name,
                             {<<"error", e.msg>>, <<"error_type", e.exc>>}).value]

\* the slot of a task whose worker has not returned a value
NoValue == [content_type |-> "none"]

\* executor.py:71: the list starmap_async gives, in the order of the tasks
StarmapResults(wres) == [k \in 1..Len(AgentTypes) |-> wres[AgentTypes[k]]]

\* the POI process_all_pois is at
CurrentPoi == pois[idx]

\* executor.py:56-67: results = [], the pool is created and the three tasks
\* are handed to it
PoolStart ==
    /\ pc = "process"
    /\ pool = "none"
    /\ pool' = "open"
    /\ worker' = [t \in ValidTypes |-> "running"]
    /\ wresult' = [t \in ValidTypes |-> NoValue]
    /\ results' = << >>
    /\ path' = "waiting"
    /\ launched' = [t \in ValidTypes |-> idx]
    /\ UNCHANGED <<pois, pc, idx, poi_queue, results_queue, judgment_queue, rb_keys,
                   rb_vals, judgments, judge_log, caps, returned, fan_log>>
    /\ UNCHANGED <<judgeVars, workerVars, queueVars, restVars>>

\* executor.py:63-67, 98-112: creating the pool or submitting the tasks raises
\* before any worker ran
PoolFails ==
    /\ pc = "process"
    /\ pool = "none"
    /\ \E e \in PoolErrors : results' = ExceptionResults(<< >>, CurrentPoi, e)
    /\ pool' = "returned"
    /\ worker' = [t \in ValidTypes |-> "none"]
    /\ wresult' = [t \in ValidTypes |-> NoValue]
    /\ path' = "pool_error"
    /\ UNCHANGED <<pois, pc, idx, poi_queue, results_queue, judgment_queue, rb_keys,
                   rb_vals, judgments, judge_log, caps, returned>>
    /\ UNCHANGED <<judgeVars, workerVars, queueVars, moreVars>>

\* a worker process runs content_worker(agent_type, poi) to its end
WorkerCompletes(t) ==
    /\ pc = "process"
    /\ pool = "open"
    /\ worker[t] = "running"
    /\ worker' = [worker EXCEPT ![t] = "done"]
    /\ \E reply \in PipeReplies :
          wresult' = [wresult EXCEPT ![t] = content_worker(t, CurrentPoi, reply).value]
    /\ UNCHANGED <<pois, pc, idx, poi_queue, results_queue, judgment_queue, pool,
                   results, path, rb_keys, rb_vals, judgments, judge_log, caps, returned>>
    /\ UNCHANGED <<judgeVars, workerVars, queueVars, moreVars>>

\* a get() that returns without the pool being ended: the worker processes
\* stay alive
GetReturnsLeavesPool ==
    /\ pc = "process"
    /\ pool = "open"
    /\ \A t \in ValidTypes : worker[t] = "done"
    /\ results' = StarmapResults(wresult)
    /\ pool' = "returned"
    /\ path' = "completed"
    /\ UNCHANGED <<pois, pc, idx, poi_queue, results_queue, judgment_queue, worker,
                   wresult, rb_keys, rb_vals, judgments, judge_log, caps, returned>>
    /\ UNCHANGED <<judgeVars, workerVars, queueVars, moreVars>>

\* executor.py:71-74: get() returns once all three tasks are done; leaving the
\* with block ends the pool
GetReturns ==
    /\ pc = "process"
    /\ pool = "open"
    /\ \A t \in ValidTypes : worker[t] = "done"
    /\ results' = StarmapResults(wresult)
    /\ worker' = [t \in ValidTypes |-> "exited"]
    /\ pool' = "returned"
    /\ path' = "completed"
    /\ UNCHANGED <<pois, pc, idx, poi_queue, results_queue, judgment_queue, wresult,
                   rb_keys, rb_vals, judgments, judge_log, caps, returned>>
    /\ UNCHANGED <<judgeVars, workerVars, queueVars, moreVars>>

\* executor.py:76-96: the deadline passes with a task outstanding: the pool is
\* terminated and the timeout results are appended
DeadlineExpires ==
    /\ pc = "process"
    /\ pool = "open"
    /\ \E t \in ValidTypes : worker[t] = "running"
    /\ results' = TimeoutResults(results, CurrentPoi)
    /\ worker' = [t \in ValidTypes |->
                     IF worker[t] = "running" THEN "terminated" ELSE "exited"]
    /\ pool' = "returned"
    /\ path' = "timeout"
    /\ UNCHANGED <<pois, pc, idx, poi_queue, results_queue, judgment_queue, wresult,
                   rb_keys, rb_vals, judgments, judge_log, caps, returned>>
    /\ UNCHANGED <<judgeVars, workerVars, queueVars, moreVars>>

\* executor.py:71, 98-112: get() raises something other than TimeoutError;
\* leaving the with block terminates the pool
GetRaises ==
    /\ pc = "process"
    /\ pool = "open"
    /\ \E e \in PoolErrors : results' = ExceptionResults(results, CurrentPoi, e)
    /\ worker' = [t \in ValidTypes |->
                     IF worker[t] = "running" THEN "terminated" ELSE "exited"]
    /\ pool' = "returned"
    /\ path' = "get_error"
    /\ UNCHANGED <<pois, pc, idx, poi_queue, results_queue, judgment_queue, wresult,
                   rb_keys, rb_vals, judgments, judge_log, caps, returned>>
    /\ UNCHANGED <<judgeVars, workerVars, queueVars, moreVars>>

\* results_by_poi with a new key put in front of the others
DictSetFront(keys, vals, name, value) ==
    [keys |-> IF \E k \in 1..Len(keys) : keys[k] = name THEN keys
              ELSE <<name>> \o keys,
     vals |-> [n \in DOMAIN vals \cup {name} |-> IF n = name THEN value ELSE vals[n]]]

\* results_by_poi.setdefault(poi.name, results): an existing entry is kept
DictSetKeepFirst(keys, vals, name, value) ==
    [keys |-> IF \E k \in 1..Len(keys) : keys[k] = name THEN keys
              ELSE Append(keys, name),
     vals |-> [n \in DOMAIN vals \cup {name} |->
                  IF n \in DOMAIN vals THEN vals[n] ELSE value]]

\* results_by_poi[poi.name] = results
DictSet(keys, vals, name, value) ==
    [keys |-> IF \E k \in 1..Len(keys) : keys[k] = name THEN keys
              ELSE Append(keys, name),
     vals |-> [n \in DOMAIN vals \cup {name} |-> IF n = name THEN value ELSE vals[n]]]

\* executor.py:117 and 134-137: process_poi returns and process_all_pois
\* stores the list under the POI's name; after the last POI run() goes on
\* with step 4
ProcessPoiReturns ==
    /\ pc = "process"
    /\ pool = "returned"
    /\ LET d == DictSet(rb_keys, rb_vals, CurrentPoi, results)
       IN  /\ rb_keys' = d.keys
           /\ rb_vals' = d.vals
    /\ pool' = "none"
    /\ IF idx < Len(pois)
       THEN /\ idx' = idx + 1
            /\ pc' = pc
       ELSE /\ idx' = 1
            /\ pc' = "enqueue_results"
    /\ worker' = [t \in ValidTypes |-> "none"]
    /\ wresult' = [t \in ValidTypes |-> NoValue]
    /\ results' = << >>
    /\ path' = "none"
    /\ launched' = [t \in ValidTypes |-> 0]
    /\ fan_log' = Append(fan_log, CurrentPoi)
    /\ UNCHANGED <<pois, poi_queue, results_queue, judgment_queue, judgments,
                   judge_log, caps, returned>>
    /\ UNCHANGED <<judgeVars, workerVars, queueVars, restVars>>

-----------------------------------------------------------------------------
(* parallel/executor.py: process_all_pois and process_all_pois_batched      *)
(* called on their own, each process_poi call taken as one step             *)

\* largest batch_size handed to process_all_pois_batched
MaxBatch == 3

\* executor.py:33-117: the lists process_poi(poi) can return: the workers'
\* values in task order, the timeout results, or the failure results
ProcessPoiResults(poi_name) ==
    {StarmapResults([t \in ValidTypes |-> content_worker(t, poi_name, reply[t]).value]) :
        reply \in [ValidTypes -> PipeReplies]}
    \cup {TimeoutResults(<< >>, poi_name)}
    \cup {ExceptionResults(<< >>, poi_name, e) : e \in PoolErrors}

\* a batch that leaves out the location at batch_start + batch_size
BatchEndExclusive(start, size, len) ==
    IF start + size - 1 < len /\ size > 1 THEN start + size - 1
    ELSE IF start + size < len THEN start + size ELSE len

\* executor.py:181: batch_end = min(batch_start + batch_size, len(pois))
BatchEnd(start, size, len) == IF start + size < len THEN start + size ELSE len

\* pois[batch_start:batch_end], a slice with 0-based bounds
Slice(list, start, end) == SubSeq(list, start + 1, end)

\* what the c-th process_poi call of the batched run returns: process_poi
\* called again for the same location does what it did in the c-th call of
\* process_all_pois; for another location it returns any of its lists
Replay(c, poi_name) ==
    IF c <= Len(calls) /\ calls[c] \in ProcessPoiResults(poi_name)
    THEN {calls[c]}
    ELSE ProcessPoiResults(poi_name)

\* what the executor's own calls leave alone
ExecFrame ==
    /\ UNCHANGED <<pois, poi_queue, results_queue, judgment_queue, pool, worker, wresult,
                   results, path, judgments, judge_log, caps, returned>>
    /\ UNCHANGED <<judgeVars, workerVars, queueVars, obsVars, qonlyVars>>

\* executor.py:134-137: one turn of the loop of process_all_pois
PapCall ==
    /\ pc = "process_all_pois"
    /\ idx <= Len(pois)
    /\ \E r \in ProcessPoiResults(pois[idx]) :
          LET d == DictSet(rb_keys, rb_vals, pois[idx], r)
          IN  /\ rb_keys' = d.keys
              /\ rb_vals' = d.vals
              /\ calls' = Append(calls, r)
    /\ idx' = idx + 1
    /\ UNCHANGED <<pc, batch_size, batch_start, batch, batch_pos, b_calls, b_keys, b_vals>>
    /\ ExecFrame

\* executor.py:158: process_all_pois returns results_by_poi
PapReturns ==
    /\ pc = "process_all_pois"
    /\ idx > Len(pois)
    /\ pc' = "pap_done"
    /\ UNCHANGED <<idx, rb_keys, rb_vals>>
    /\ UNCHANGED execVars
    /\ ExecFrame

\* executor.py:177-180: process_all_pois_batched(pois, batch_size) is called
\* with the same list: results_by_poi = {} and the outer loop starts at 0
BatchedBegins ==
    /\ pc = "pap_done"
    /\ pc' = "batched_outer"
    /\ batch_start' = 0
    /\ b_keys' = << >>
    /\ b_vals' = EmptyDict
    /\ UNCHANGED <<idx, rb_keys, rb_vals, calls, batch_size, batch, batch_pos, b_calls>>
    /\ ExecFrame

\* executor.py:180-182: one turn of `for batch_start in range(0, len(pois),
\* batch_size)`: the batch is sliced
BatchStarts ==
    /\ pc = "batched_outer"
    /\ batch_start < Len(pois)
    /\ batch' = Slice(pois, batch_start, BatchEnd(batch_start, batch_size, Len(pois)))
    /\ batch_pos' = 1
    /\ pc' = "batched_inner"
    /\ UNCHANGED <<idx, rb_keys, rb_vals, calls, batch_size, batch_start, b_calls, b_keys,
                   b_vals>>
    /\ ExecFrame

\* executor.py:187-189: one turn of `for poi in batch`
BatchCall ==
    /\ pc = "batched_inner"
    /\ batch_pos <= Len(batch)
    /\ \E r \in Replay(Len(b_calls) + 1, batch[batch_pos]) :
          LET d == DictSet(b_keys, b_vals, batch[batch_pos], r)
          IN  /\ b_keys' = d.keys
              /\ b_vals' = d.vals
    /\ b_calls' = Append(b_calls, batch[batch_pos])
    /\ batch_pos' = batch_pos + 1
    /\ UNCHANGED <<pc, idx, rb_keys, rb_vals, calls, batch_size, batch_start, batch>>
    /\ ExecFrame

\* the inner loop is through: the outer loop goes on at batch_start + batch_size
BatchEnds ==
    /\ pc = "batched_inner"
    /\ batch_pos > Len(batch)
    /\ batch_start' = batch_start + batch_size
    /\ pc' = "batched_outer"
    /\ UNCHANGED <<idx, rb_keys, rb_vals, calls, batch_size, batch, batch_pos, b_calls,
                   b_keys, b_vals>>
    /\ ExecFrame

\* executor.py:194: process_all_pois_batched returns results_by_poi
BatchedReturns ==
    /\ pc = "batched_outer"
    /\ batch_start >= Len(pois)
    /\ pc' = "batched_done"
    /\ UNCHANGED <<idx, rb_keys, rb_vals>>
    /\ UNCHANGED execVars
    /\ ExecFrame

ExecNext ==
    \/ PapCall
    \/ PapReturns
    \/ BatchedBegins
    \/ BatchStarts
    \/ BatchCall
    \/ BatchEnds
    \/ BatchedReturns

-----------------------------------------------------------------------------
(* parallel/pipeline.py: ContentPipeline.run                               *)

\* the loops of step 4 putting only the first result of each location
FlattenFirsts(keys, vals) ==
    [k \in 1..Len(keys) |-> vals[keys[k]][1]]

\* the results of results_by_poi in the order the loops of run() visit them
RECURSIVE Flatten(_, _)
Flatten(keys, vals) ==
    IF keys = << >> THEN << >>
    ELSE vals[Head(keys)] \o Flatten(Tail(keys), vals)

\* what the judge's LLM call does inside the pipeline: the CLI fails, or it
\* answers unfenced JSON that is a number or an object with all three keys
PipeJudgeReplies ==
    {r \in JudgeReplies :
        \/ r.kind = "cli_error"
        \/ r.fence = "none" /\ r.payload = "number"
        \/ r.fence = "none" /\ r.payload = "object"
              /\ r.keys = {"selected", "reasoning", "scores"}}

\* an except branch that only logs
PipelineFallbackSkips(poi_name, res) ==
    [made |-> FALSE, raised |-> FALSE, value |-> NoResult]

\* an except branch that takes the last result
PipelineFallbackLast(poi_name, res) ==
    IF res = << >>
    THEN [made |-> FALSE, raised |-> FALSE, value |-> NoResult]
    ELSE LET j == JudgmentResult(poi_name, res[Len(res)], res[Len(res)].content_type,
                                 "judge_agent_failed_using_fallback", ScoresOf(res), res)
         IN  [made |-> TRUE, raised |-> j.raised, value |-> j.value]

\* pipeline.py:99-109: the judgment made when the judge raised. `made` is
\* FALSE when there are no results to take one from.
PipelineFallback(poi_name, res) ==
    IF res = << >>
    THEN [made |-> FALSE, raised |-> FALSE, value |-> NoResult]
    ELSE LET j == JudgmentResult(poi_name, res[1], res[1].content_type,
                                 "judge_agent_failed_using_fallback", ScoresOf(res), res)
         IN  [made |-> TRUE, raised |-> j.raised, value |-> j.value]

\* pipeline.py:93-109 around a judge_agent.run(results) that raised, for a
\* list of ContentResults handed to the judge directly: the except branch
\* makes the fallback judgment if there are results
JPipelineExcept ==
    /\ j_pc = "raised"
    /\ j_type = "list"
    /\ \A k \in 1..Len(j_input) : IsContentResult(j_input[k])
    /\ LET fb == PipelineFallback("p1", j_input)
       IN  /\ j_result' = IF fb.made /\ ~fb.raised THEN fb.value ELSE j_result
           /\ j_pc' = IF fb.made /\ ~fb.raised THEN "done_pipeline" ELSE "skipped"
    /\ UNCHANGED <<j_type, j_input, j_response, j_data, j_calls, j_fallbacks, j_exc, j_ctor>>
    /\ UNCHANGED <<pipeVars, workerVars, queueVars, moreVars>>

PipeIdle ==
    /\ pois = << >>
    /\ pc = "idle"
    /\ idx = 0
    /\ poi_queue = << >>
    /\ results_queue = << >>
    /\ judgment_queue = << >>
    /\ pool = "none"
    /\ worker = [t \in ValidTypes |-> "none"]
    /\ wresult = [t \in ValidTypes |-> NoValue]
    /\ results = << >>
    /\ path = "none"
    /\ rb_keys = << >>
    /\ rb_vals = EmptyDict
    /\ judgments = << >>
    /\ judge_log = << >>
    /\ caps \in {c \in QueueSizes : c.poi = DefaultPoiQueueSize}
    /\ returned = NoResult

\* the lists of MaxPois + 1 locations whose last location has the name of the
\* first one and no other has
RepeatLists ==
    {l \in [1..(MaxPois + 1) -> Names] :
        /\ l[1] = l[MaxPois + 1]
        /\ \A k \in 2..MaxPois : l[k] # l[1]}

\* the lists run() is called with: all lists of at most MaxPois locations,
\* and the longer ones of RepeatLists
PoiLists == UNION {[1..len -> Names] : len \in 0..MaxPois} \cup RepeatLists

\* a ContentPipeline after construction, and the list run() is called with
PipeInit ==
    /\ pois \in PoiLists
    /\ pc = "start"
    /\ idx = 0
    /\ poi_queue = << >>
    /\ results_queue = << >>
    /\ judgment_queue = << >>
    /\ pool = "none"
    /\ worker = [t \in ValidTypes |-> "none"]
    /\ wresult = [t \in ValidTypes |-> NoValue]
    /\ results = << >>
    /\ path = "none"
    /\ rb_keys = << >>
    /\ rb_vals = EmptyDict
    /\ judgments = << >>
    /\ judge_log = << >>
    /\ caps \in QueueSizes
    /\ returned = NoResult

\* a run([]) that drains the queues before it returns
RunEmptyClears ==
    /\ pc = "start"
    /\ pois = << >>
    /\ q_op.status # "waiting"
    /\ returned' = << >>
    /\ pc' = "done"
    /\ poi_queue' = << >>
    /\ results_queue' = << >>
    /\ judgment_queue' = << >>
    /\ flushed' = [q \in QueueNames |-> 0]
    /\ q_op' = StartOp("run", "all", FALSE, FALSE, NoResult, "ok", NoResult)
    /\ UNCHANGED <<pois, idx, pool, worker, wresult, results, path, rb_keys, rb_vals,
                   judgments, judge_log, caps>>
    /\ UNCHANGED <<q_put_log, q_get_log, q_ops>>
    /\ UNCHANGED <<judgeVars, workerVars, moreVars>>

\* pipeline.py:66-68: run([]) logs a warning and returns []. The caller is
\* not inside another call (q_op notes the call for the observer).
RunEmpty ==
    /\ pc = "start"
    /\ pois = << >>
    /\ q_op.status # "waiting"
    /\ returned' = << >>
    /\ pc' = "done"
    /\ q_op' = StartOp("run", "all", FALSE, FALSE, NoResult, "ok", NoResult)
    /\ UNCHANGED <<pois, idx, poi_queue, results_queue, judgment_queue, pool, worker,
                   wresult, results, path, rb_keys, rb_vals, judgments, judge_log, caps>>
    /\ UNCHANGED <<flushed, q_put_log, q_get_log, q_ops>>
    /\ UNCHANGED <<judgeVars, workerVars, moreVars>>

\* pipeline.py:64-72: a non-empty list: on to step 1
RunBegins ==
    /\ pc = "start"
    /\ pois # << >>
    /\ pc' = "enqueue_pois"
    /\ idx' = 1
    /\ UNCHANGED <<pois, poi_queue, results_queue, judgment_queue, pool, worker,
                   wresult, results, path, rb_keys, rb_vals, judgments, judge_log, caps,
                   returned>>
    /\ UNCHANGED <<judgeVars, workerVars, queueVars, moreVars>>

\* pipeline.py:72-73: put_poi(poi), blocking; after the last one
\* process_all_pois is called
PutPoi ==
    /\ pc = "enqueue_pois"
    /\ CanPut(poi_queue, caps.poi)
    /\ poi_queue' = Append(poi_queue, pois[idx])
    /\ IF idx < Len(pois)
       THEN /\ idx' = idx + 1
            /\ pc' = pc
       ELSE /\ idx' = 1
            /\ pc' = "process"
    /\ UNCHANGED <<pois, results_queue, judgment_queue, pool, worker, wresult, results,
                   path, rb_keys, rb_vals, judgments, judge_log, caps, returned>>
    /\ UNCHANGED <<judgeVars, workerVars, queueVars, moreVars>>

\* pipeline.py:83-86: put_result(result), blocking; after the last one the
\* judging loop starts
PutResult ==
    /\ pc = "enqueue_results"
    /\ CanPut(results_queue, caps.results)
    /\ LET all == Flatten(rb_keys, rb_vals)
       IN  /\ results_queue' = Append(results_queue, all[idx])
           /\ IF idx < Len(all)
              THEN /\ idx' = idx + 1
                   /\ pc' = pc
              ELSE /\ idx' = 1
                   /\ pc' = "judge"
    /\ UNCHANGED <<pois, poi_queue, judgment_queue, pool, worker, wresult, results,
                   path, rb_keys, rb_vals, judgments, judge_log, caps, returned>>
    /\ UNCHANGED <<judgeVars, workerVars, queueVars, moreVars>>

\* pipeline.py:92-109: one turn of the judging loop: judge_agent.run(results),
\* and the fallback judgment if it raises
JudgePoi ==
    /\ pc = "judge"
    /\ \E response \in PipeJudgeReplies :
          LET poi_name == rb_keys[idx]
              res == rb_vals[poi_name]
              out == JudgeRun(res, response)
              fb == PipelineFallback(poi_name, res)
              now == IF ~out.raised THEN Append(judgments, out.value)
                     ELSE IF fb.made /\ ~fb.raised THEN Append(judgments, fb.value)
                     ELSE judgments
          IN  /\ judgments' = now
              /\ judge_log' = Append(judge_log,
                                     [poi_name |-> poi_name, raised |-> out.raised,
                                      exc |-> out.exc, route |-> out.route,
                                      named |-> response.selected,
                                      appended |-> Len(now) > Len(judgments)])
              /\ IF idx < Len(rb_keys)
                 THEN /\ idx' = idx + 1
                      /\ pc' = pc
                 ELSE /\ idx' = 1
                      /\ pc' = IF now = << >> THEN "return" ELSE "enqueue_judgments"
    /\ UNCHANGED <<pois, poi_queue, results_queue, judgment_queue, pool, worker,
                   wresult, results, path, rb_keys, rb_vals, caps, returned>>
    /\ UNCHANGED <<judgeVars, workerVars, queueVars, moreVars>>

\* pipeline.py:113-114: put_judgment(judgment), blocking
PutJudgment ==
    /\ pc = "enqueue_judgments"
    /\ CanPut(judgment_queue, caps.judgment)
    /\ judgment_queue' = Append(judgment_queue, judgments[idx])
    /\ IF idx < Len(judgments)
       THEN /\ idx' = idx + 1
            /\ pc' = pc
       ELSE /\ idx' = 1
            /\ pc' = "return"
    /\ UNCHANGED <<pois, poi_queue, results_queue, pool, worker, wresult, results,
                   path, rb_keys, rb_vals, judgments, judge_log, caps, returned>>
    /\ UNCHANGED <<judgeVars, workerVars, queueVars, moreVars>>

\* pipeline.py:119
RunReturns ==
    /\ pc = "return"
    /\ returned' = judgments
    /\ pc' = "done"
    /\ UNCHANGED <<pois, idx, poi_queue, results_queue, judgment_queue, pool, worker,
                   wresult, results, path, rb_keys, rb_vals, judgments, judge_log, caps>>
    /\ UNCHANGED <<judgeVars, workerVars, queueVars, moreVars>>

PipeNext ==
    \/ RunEmpty
    \/ RunBegins
    \/ PutPoi
    \/ PoolStart
    \/ PoolFails
    \/ \E t \in ValidTypes : WorkerCompletes(t)
    \/ GetReturns
    \/ DeadlineExpires
    \/ GetRaises
    \/ ProcessPoiReturns
    \/ PutResult
    \/ JudgePoi
    \/ PutJudgment
    \/ RunReturns

-----------------------------------------------------------------------------
(* QueueManager called on its own, through ContentPipeline.queue_manager,  *)
(* by one caller; another process may put and get on the same queues       *)

QueueIdle ==
    /\ flushed = [q \in QueueNames |-> 0]
    /\ q_op = NoOp
    /\ q_put_log = [q \in QueueNames |-> << >>]
    /\ q_get_log = [q \in QueueNames |-> << >>]
    /\ q_ops = 0

\* queue q becomes `new`, the other two stay
SetQueue(q, new) ==
    /\ poi_queue' = IF q = "poi" THEN new ELSE poi_queue
    /\ results_queue' = IF q = "results" THEN new ELSE results_queue
    /\ judgment_queue' = IF q = "judgment" THEN new ELSE judgment_queue

\* the caller is between two operations
CallerFree == q_op.status # "waiting" /\ q_ops < MaxQueueOps

\* what no queue operation touches
QueueFrame ==
    /\ UNCHANGED <<pois, pc, idx, pool, worker, wresult, results, path, rb_keys,
                   rb_vals, judgments, judge_log, caps, returned>>
    /\ UNCHANGED <<judgeVars, workerVars, moreVars>>

\* manager.py:53-66, 86-101, 121-136: put_poi / put_result / put_judgment
\* (item, block, timeout). With room it enqueues; on a full queue it raises
\* Full if block is False and waits otherwise.
QPut(q, item, block, timed) ==
    /\ CallerFree
    /\ q_ops' = q_ops + 1
    /\ IF CanPut(QueueOf(q), caps[q])
       THEN /\ SetQueue(q, Enqueue(QueueOf(q), item))
            /\ q_put_log' = [q_put_log EXCEPT ![q] = Append(@, item)]
            /\ q_op' = StartOp("put", q, block, timed, item, "ok", NoResult)
       ELSE /\ UNCHANGED <<poi_queue, results_queue, judgment_queue, q_put_log>>
            /\ q_op' = StartOp("put", q, block, timed, item,
                               IF block THEN "waiting" ELSE "Full", NoResult)
    /\ UNCHANGED <<flushed, q_get_log>>
    /\ QueueFrame

\* a waiting put goes on once there is room
QPutProceeds ==
    /\ q_op.op = "put"
    /\ q_op.status = "waiting"
    /\ CanPut(QueueOf(q_op.queue), caps[q_op.queue])
    /\ SetQueue(q_op.queue, Enqueue(QueueOf(q_op.queue), q_op.item))
    /\ q_put_log' = [q_put_log EXCEPT ![q_op.queue] = Append(@, q_op.item)]
    /\ q_op' = [q_op EXCEPT !.status = "ok"]
    /\ UNCHANGED <<flushed, q_get_log, q_ops>>
    /\ QueueFrame

\* the timeout of a waiting put ends with the queue still full: Full
QPutTimesOut ==
    /\ q_op.op = "put"
    /\ q_op.status = "waiting"
    /\ q_op.timed
    /\ ~CanPut(QueueOf(q_op.queue), caps[q_op.queue])
    /\ q_op' = [q_op EXCEPT !.status = "Full"]
    /\ UNCHANGED <<poi_queue, results_queue, judgment_queue, flushed, q_put_log,
                   q_get_log, q_ops>>
    /\ QueueFrame

\* a get that waits on an empty pipe whatever `block` says
QGetAlwaysWaits(q, block, timed) ==
    /\ CallerFree
    /\ q_ops' = q_ops + 1
    /\ IF flushed[q] > 0
       THEN LET got == Dequeue(q, QueueOf(q))
            IN  /\ SetQueue(q, got.rest)
                /\ flushed' = [flushed EXCEPT ![q] = @ - 1]
                /\ q_get_log' = [q_get_log EXCEPT ![q] = Append(@, got.item)]
                /\ q_op' = StartOp("get", q, block, timed, NoResult, "ok", got.item)
       ELSE /\ UNCHANGED <<poi_queue, results_queue, judgment_queue, flushed, q_get_log>>
            /\ q_op' = StartOp("get", q, block, timed, NoResult,
                               "waiting", NoResult)
    /\ UNCHANGED q_put_log
    /\ QueueFrame

\* manager.py:68-84, 103-119, 138-156: get_poi / get_result / get_judgment
\* (block, timeout). With an item in the pipe it returns the oldest; with
\* none it raises Empty if block is False and waits otherwise.
QGet(q, block, timed) ==
    /\ CallerFree
    /\ q_ops' = q_ops + 1
    /\ IF flushed[q] > 0
       THEN LET got == Dequeue(q, QueueOf(q))
            IN  /\ SetQueue(q, got.rest)
                /\ flushed' = [flushed EXCEPT ![q] = @ - 1]
                /\ q_get_log' = [q_get_log EXCEPT ![q] = Append(@, got.item)]
                /\ q_op' = StartOp("get", q, block, timed, NoResult, "ok", got.item)
       ELSE /\ UNCHANGED <<poi_queue, results_queue, judgment_queue, flushed, q_get_log>>
            /\ q_op' = StartOp("get", q, block, timed, NoResult,
                               IF block THEN "waiting" ELSE "Empty", NoResult)
    /\ UNCHANGED q_put_log
    /\ QueueFrame

\* a waiting get returns once an item is in the pipe
QGetProceeds ==
    /\ q_op.op = "get"
    /\ q_op.status = "waiting"
    /\ flushed[q_op.queue] > 0
    /\ LET got == Dequeue(q_op.queue, QueueOf(q_op.queue))
       IN  /\ SetQueue(q_op.queue, got.rest)
           /\ q_get_log' = [q_get_log EXCEPT ![q_op.queue] = Append(@, got.item)]
           /\ q_op' = [q_op EXCEPT !.status = "ok", !.result = got.item]
    /\ flushed' = [flushed EXCEPT ![q_op.queue] = @ - 1]
    /\ UNCHANGED <<q_put_log, q_ops>>
    /\ QueueFrame

\* the timeout of a waiting get ends with nothing in the pipe: Empty
QGetTimesOut ==
    /\ q_op.op = "get"
    /\ q_op.status = "waiting"
    /\ q_op.timed
    /\ flushed[q_op.queue] = 0
    /\ q_op' = [q_op EXCEPT !.status = "Empty"]
    /\ UNCHANGED <<poi_queue, results_queue, judgment_queue, flushed, q_put_log,
                   q_get_log, q_ops>>
    /\ QueueFrame

\* the feeder thread writes the oldest buffered item of a queue to the pipe
Feeder(q) ==
    /\ flushed[q] < Len(QueueOf(q))
    /\ flushed' = [flushed EXCEPT ![q] = @ + 1]
    /\ UNCHANGED <<poi_queue, results_queue, judgment_queue, q_op, q_put_log,
                   q_get_log, q_ops>>
    /\ QueueFrame

\* a put of another process that does not wait for room
OtherPutUnbounded(q, item) ==
    /\ q_op.op = "get"
    /\ q_op.status = "waiting"
    /\ q_op.queue = q
    /\ q_ops < MaxQueueOps
    /\ SetQueue(q, Enqueue(QueueOf(q), item))
    /\ q_put_log' = [q_put_log EXCEPT ![q] = Append(@, item)]
    /\ q_op' = [q_op EXCEPT !.others = @ + 1]
    /\ q_ops' = q_ops + 1
    /\ UNCHANGED <<flushed, q_get_log>>
    /\ QueueFrame

\* another process puts an item while the caller waits in a get
OtherPut(q, item) ==
    /\ q_op.op = "get"
    /\ q_op.status = "waiting"
    /\ q_op.queue = q
    /\ q_ops < MaxQueueOps
    /\ CanPut(QueueOf(q), caps[q])
    /\ SetQueue(q, Enqueue(QueueOf(q), item))
    /\ q_put_log' = [q_put_log EXCEPT ![q] = Append(@, item)]
    /\ q_op' = [q_op EXCEPT !.others = @ + 1]
    /\ q_ops' = q_ops + 1
    /\ UNCHANGED <<flushed, q_get_log>>
    /\ QueueFrame

\* another process gets an item while the caller waits in a put
OtherGet(q) ==
    /\ q_op.op = "put"
    /\ q_op.status = "waiting"
    /\ q_op.queue = q
    /\ q_ops < MaxQueueOps
    /\ flushed[q] > 0
    /\ LET got == Dequeue(q, QueueOf(q))
       IN  /\ SetQueue(q, got.rest)
           /\ q_get_log' = [q_get_log EXCEPT ![q] = Append(@, got.item)]
    /\ flushed' = [flushed EXCEPT ![q] = @ - 1]
    /\ q_op' = [q_op EXCEPT !.others = @ + 1]
    /\ q_ops' = q_ops + 1
    /\ UNCHANGED q_put_log
    /\ QueueFrame

\* the items of a queue from position k + 1 on
DropFirst(queue, k) == SubSeq(queue, k + 1, Len(queue))

\* the items clear_all took from a queue, as get_nowait returned them
Taken(q, queue, k) == [i \in 1..k |-> Unpickle(Pickle(q, queue[i]))]

\* manager.py:158-195: the three loops of clear_all; an exception of
\* get_nowait ends the loop (bare except)
Drain(op) ==
    /\ q_ops' = q_ops + 1
    /\ \E kp \in DrainCounts(Len(poi_queue), flushed["poi"]),
          kr \in DrainCounts(Len(results_queue), flushed["results"]),
          kj \in DrainCounts(Len(judgment_queue), flushed["judgment"]) :
          /\ poi_queue' = DropFirst(poi_queue, kp)
          /\ results_queue' = DropFirst(results_queue, kr)
          /\ judgment_queue' = DropFirst(judgment_queue, kj)
          /\ q_get_log' = [q \in QueueNames |->
                              q_get_log[q] \o
                                 (IF q = "poi" THEN Taken(q, poi_queue, kp)
                                  ELSE IF q = "results" THEN Taken(q, results_queue, kr)
                                  ELSE Taken(q, judgment_queue, kj))]
    /\ flushed' = [q \in QueueNames |-> 0]
    /\ q_op' = StartOp(op, "all", FALSE, FALSE, NoResult, "ok", NoResult)
    /\ UNCHANGED q_put_log
    /\ QueueFrame

\* manager.py:158-195: QueueManager.clear_all()
ClearAll ==
    /\ CallerFree
    /\ Drain("clear_all")

\* pipeline.py:185-188: ContentPipeline.clear()
PipelineClear ==
    /\ CallerFree
    /\ Drain("pipeline_clear")

\* a ContentPipeline after construction whose run() is called with [] at some
\* point, and whose queue manager is used directly
QueueInit ==
    /\ pois = << >>
    /\ pc = "start"
    /\ idx = 0
    /\ poi_queue = << >>
    /\ results_queue = << >>
    /\ judgment_queue = << >>
    /\ pool = "none"
    /\ worker = [t \in ValidTypes |-> "none"]
    /\ wresult = [t \in ValidTypes |-> NoValue]
    /\ results = << >>
    /\ path = "none"
    /\ rb_keys = << >>
    /\ rb_vals = EmptyDict
    /\ judgments = << >>
    /\ judge_log = << >>
    /\ caps \in QueueSizes
    /\ returned = NoResult
    /\ QueueIdle

QueueNext ==
    \/ \E q \in QueueNames : \E item \in QueueItems(q) :
          \E block \in BOOLEAN : \E timed \in {t \in BOOLEAN : t => block} :
             QPut(q, item, block, timed)
    \/ QPutProceeds
    \/ QPutTimesOut
    \/ \E q \in QueueNames :
          \E block \in BOOLEAN : \E timed \in {t \in BOOLEAN : t => block} :
             QGet(q, block, timed)
    \/ QGetProceeds
    \/ QGetTimesOut
    \/ \E q \in QueueNames : Feeder(q)
    \/ \E q \in QueueNames : \E item \in QueueItems(q) : OtherPut(q, item)
    \/ \E q \in QueueNames : OtherGet(q)
    \/ ClearAll
    \/ PipelineClear
    \/ RunEmpty

-----------------------------------------------------------------------------
(* parallel/pipeline.py: ContentPipeline.run_with_queue_only, called on a  *)
(* pipeline whose poi_queue was filled with put_poi before; each           *)
(* process_poi call and each judge_agent.run call is taken as one step      *)

\* a loop that judges after the first put_result
QoPutResultOnce ==
    /\ pc = "qo_put_results"
    /\ CanPut(results_queue, caps.results)
    /\ results_queue' = Append(results_queue, results[idx])
    /\ q_put_log' = [q_put_log EXCEPT !["results"] = Append(@, results[idx])]
    /\ idx' = 1
    /\ pc' = "qo_judge"
    /\ UNCHANGED <<pois, poi_queue, judgment_queue, pool, worker, wresult, results, path,
                   rb_keys, rb_vals, judgments, judge_log, caps, returned>>
    /\ UNCHANGED <<flushed, q_op, q_get_log, q_ops>>
    /\ UNCHANGED <<judgeVars, workerVars, moreVars>>

\* a get_poi that takes the newest location in the pipe
QoGetPoiNewest ==
    /\ pc = "qo_loop"
    /\ qo_i < poi_count
    /\ flushed["poi"] > 0
    /\ qo_poi' = poi_queue[flushed["poi"]]
    /\ poi_queue' = SubSeq(poi_queue, 1, flushed["poi"] - 1)
                       \o SubSeq(poi_queue, flushed["poi"] + 1, Len(poi_queue))
    /\ flushed' = [flushed EXCEPT !["poi"] = @ - 1]
    /\ q_get_log' = [q_get_log EXCEPT !["poi"] = Append(@, poi_queue[flushed["poi"]])]
    /\ qo_i' = qo_i + 1
    /\ pc' = "qo_process"
    /\ UNCHANGED <<pois, idx, results_queue, judgment_queue, pool, worker, wresult,
                   results, path, rb_keys, rb_vals, judgments, judge_log, caps, returned>>
    /\ UNCHANGED <<q_op, q_put_log, q_ops>>
    /\ UNCHANGED <<poi_count, qo_judgment, qo_exc>>
    /\ UNCHANGED <<judgeVars, workerVars, obsVars, execVars>>

\* pipeline.py:141-144: a turn of the loop begins and get_poi(timeout=5)
\* returns the oldest location in the pipe, at once or after a wait
QoGetPoi ==
    /\ pc = "qo_loop"
    /\ qo_i < poi_count
    /\ flushed["poi"] > 0
    /\ LET got == Dequeue("poi", poi_queue)
       IN  /\ poi_queue' = got.rest
           /\ qo_poi' = got.item
           /\ q_get_log' = [q_get_log EXCEPT !["poi"] = Append(@, got.item)]
    /\ flushed' = [flushed EXCEPT !["poi"] = @ - 1]
    /\ qo_i' = qo_i + 1
    /\ pc' = "qo_process"
    /\ UNCHANGED <<pois, idx, results_queue, judgment_queue, pool, worker, wresult,
                   results, path, rb_keys, rb_vals, judgments, judge_log, caps, returned>>
    /\ UNCHANGED <<q_op, q_put_log, q_ops>>
    /\ UNCHANGED <<poi_count, qo_judgment, qo_exc>>
    /\ UNCHANGED <<judgeVars, workerVars, obsVars, execVars>>

\* pipeline.py:144, 165-167: the five seconds of get_poi end with nothing in
\* the pipe: queue.Empty, caught by `except Exception`, and the loop is left
QoGetTimesOut ==
    /\ pc = "qo_loop"
    /\ qo_i < poi_count
    /\ flushed["poi"] = 0
    /\ qo_i' = qo_i + 1
    /\ qo_exc' = "Empty"
    /\ pc' = "qo_return"
    /\ UNCHANGED <<pois, idx, poi_queue, results_queue, judgment_queue, pool, worker,
                   wresult, results, path, rb_keys, rb_vals, judgments, judge_log, caps,
                   returned>>
    /\ UNCHANGED <<poi_count, qo_poi, qo_judgment>>
    /\ UNCHANGED <<judgeVars, workerVars, queueVars, obsVars, execVars>>

\* executor.py:33-117: the lists process_poi(poi) returns here: the three
\* agents all answer or all fail, the deadline passes, or the pool fails
QoPoiResults(poi_name) ==
    {StarmapResults([t \in ValidTypes |-> content_worker(t, poi_name, reply).value]) :
        reply \in PipeReplies}
    \cup {TimeoutResults(<< >>, poi_name)}
    \cup {ExceptionResults(<< >>, poi_name, e) : e \in PoolErrors}

\* pipeline.py:148: results = self.parallel_executor.process_poi(poi)
QoProcess ==
    /\ pc = "qo_process"
    /\ \E r \in QoPoiResults(qo_poi) : results' = r
    /\ fan_log' = Append(fan_log, qo_poi)
    /\ idx' = 1
    /\ pc' = "qo_put_results"
    /\ UNCHANGED <<pois, poi_queue, results_queue, judgment_queue, pool, worker, wresult,
                   path, rb_keys, rb_vals, judgments, judge_log, caps, returned>>
    /\ UNCHANGED <<judgeVars, workerVars, queueVars, launched, restVars>>

\* pipeline.py:151-152: put_result(result), blocking; after the last one the
\* judge is called
QoPutResult ==
    /\ pc = "qo_put_results"
    /\ CanPut(results_queue, caps.results)
    /\ results_queue' = Append(results_queue, results[idx])
    /\ q_put_log' = [q_put_log EXCEPT !["results"] = Append(@, results[idx])]
    /\ IF idx < Len(results)
       THEN /\ idx' = idx + 1
            /\ pc' = pc
       ELSE /\ idx' = 1
            /\ pc' = "qo_judge"
    /\ UNCHANGED <<pois, poi_queue, judgment_queue, pool, worker, wresult, results, path,
                   rb_keys, rb_vals, judgments, judge_log, caps, returned>>
    /\ UNCHANGED <<flushed, q_op, q_get_log, q_ops>>
    /\ UNCHANGED <<judgeVars, workerVars, moreVars>>

\* pipeline.py:155, 165-167: judgment = self.judge_agent.run(results); what
\* it raises is caught by `except Exception` and the loop is left
QoJudge ==
    /\ pc = "qo_judge"
    /\ \E response \in PipeJudgeReplies :
          LET out == JudgeRun(results, response)
          IN  /\ qo_judgment' = IF out.raised THEN qo_judgment ELSE out.value
              /\ qo_exc' = IF out.raised THEN out.exc ELSE qo_exc
              /\ pc' = IF out.raised THEN "qo_return" ELSE "qo_put_judgment"
              /\ judge_log' = Append(judge_log,
                                     [poi_name |-> qo_poi, raised |-> out.raised,
                                      exc |-> out.exc, route |-> out.route,
                                      named |-> response.selected,
                                      appended |-> FALSE])
    /\ UNCHANGED <<pois, idx, poi_queue, results_queue, judgment_queue, pool, worker,
                   wresult, results, path, rb_keys, rb_vals, judgments, caps, returned>>
    /\ UNCHANGED <<poi_count, qo_i, qo_poi>>
    /\ UNCHANGED <<judgeVars, workerVars, queueVars, obsVars, execVars>>

\* pipeline.py:158-161: put_judgment(judgment), blocking, and then
\* judgments.append(judgment); the loop goes on
QoPutJudgment ==
    /\ pc = "qo_put_judgment"
    /\ CanPut(judgment_queue, caps.judgment)
    /\ judgment_queue' = Append(judgment_queue, qo_judgment)
    /\ q_put_log' = [q_put_log EXCEPT !["judgment"] = Append(@, qo_judgment)]
    /\ judgments' = Append(judgments, qo_judgment)
    /\ pc' = "qo_loop"
    /\ UNCHANGED <<pois, idx, poi_queue, results_queue, pool, worker, wresult, results,
                   path, rb_keys, rb_vals, judge_log, caps, returned>>
    /\ UNCHANGED <<flushed, q_op, q_get_log, q_ops>>
    /\ UNCHANGED <<judgeVars, workerVars, moreVars>>

\* pipeline.py:141, 169-170: the loop is through, or was left by break:
\* run_with_queue_only returns judgments
QoReturns ==
    /\ \/ pc = "qo_loop" /\ qo_i >= poi_count
       \/ pc = "qo_return"
    /\ returned' = judgments
    /\ pc' = "qo_done"
    /\ UNCHANGED <<pois, idx, poi_queue, results_queue, judgment_queue, pool, worker,
                   wresult, results, path, rb_keys, rb_vals, judgments, judge_log, caps>>
    /\ UNCHANGED <<judgeVars, workerVars, queueVars, moreVars>>

\* a pipeline whose poi_queue holds the locations put on it with put_poi, of
\* which the feeder thread has written some to the pipe, and the poi_count
\* run_with_queue_only is called with
QOnlyInit ==
    /\ pois \in PoiLists
    /\ caps \in {c \in QueueSizes : Len(pois) <= c.poi}
    /\ poi_queue = pois
    /\ flushed \in {f \in [QueueNames -> 0..Len(pois)] :
                       f["results"] = 0 /\ f["judgment"] = 0}
    /\ q_put_log = [q \in QueueNames |-> IF q = "poi" THEN pois ELSE << >>]
    /\ q_get_log = [q \in QueueNames |-> << >>]
    /\ q_op = NoOp
    /\ q_ops = 0
    /\ poi_count \in 0..(MaxPois + 1)
    /\ qo_i = 0
    /\ qo_poi = NoResult
    /\ qo_judgment = NoResult
    /\ qo_exc = "none"
    /\ pc = "qo_loop"
    /\ idx = 0
    /\ results_queue = << >>
    /\ judgment_queue = << >>
    /\ pool = "none"
    /\ worker = [t \in ValidTypes |-> "none"]
    /\ wresult = [t \in ValidTypes |-> NoValue]
    /\ results = << >>
    /\ path = "none"
    /\ rb_keys = << >>
    /\ rb_vals = EmptyDict
    /\ judgments = << >>
    /\ judge_log = << >>
    /\ returned = NoResult

\* the steps of run_with_queue_only and of the feeder thread of poi_queue
\* (those of the other two queues write to pipes nobody reads here)
QOnlyNext ==
    \/ QoGetPoi
    \/ QoGetTimesOut
    \/ Feeder("poi")
    \/ QoProcess
    \/ QoPutResult
    \/ QoJudge
    \/ QoPutJudgment
    \/ QoReturns

\* no fan-out has been observed
ObsIdle ==
    /\ launched = [t \in ValidTypes |-> 0]
    /\ fan_log = << >>

\* an executor and the list its process_all_pois is called with; afterwards
\* process_all_pois_batched is called with the same list and a batch_size
ExecInit ==
    /\ pois \in PoiLists
    /\ pc = "process_all_pois"
    /\ idx = 1
    /\ poi_queue = << >>
    /\ results_queue = << >>
    /\ judgment_queue = << >>
    /\ pool = "none"
    /\ worker = [t \in ValidTypes |-> "none"]
    /\ wresult = [t \in ValidTypes |-> NoValue]
    /\ results = << >>
    /\ path = "none"
    /\ rb_keys = << >>
    /\ rb_vals = EmptyDict
    /\ judgments = << >>
    /\ judge_log = << >>
    /\ caps \in {c \in QueueSizes : c.poi = DefaultPoiQueueSize}
    /\ returned = NoResult
    /\ calls = << >>
    /\ batch_size \in 1..MaxBatch
    /\ batch_start = 0
    /\ batch = << >>
    /\ batch_pos = 0
    /\ b_calls = << >>
    /\ b_keys = << >>
    /\ b_vals = EmptyDict

\* neither process_all_pois nor process_all_pois_batched is called on its own
ExecIdle ==
    /\ calls = << >>
    /\ batch_size = 0
    /\ batch_start = 0
    /\ batch = << >>
    /\ batch_pos = 0
    /\ b_calls = << >>
    /\ b_keys = << >>
    /\ b_vals = EmptyDict

\* run_with_queue_only is not called
QOnlyIdle ==
    /\ poi_count = 0
    /\ qo_i = 0
    /\ qo_poi = NoResult
    /\ qo_judgment = NoResult
    /\ qo_exc = "none"

\* nothing beyond run(), the judge, the workers and the queue manager is in use
MoreIdle == ObsIdle /\ ExecIdle /\ QOnlyIdle

-----------------------------------------------------------------------------
(* Specifications *)

\* ContentPipeline.run on a freshly constructed pipeline
Init == PipeInit /\ JudgeIdle /\ WorkerIdle /\ QueueIdle /\ MoreIdle
Next == PipeNext
Spec == Init /\ [][Next]_vars

\* where run() and its fan-out are at; every step of Next changes it
runPos == <<pc, idx, pool, worker>>

\* ContentPipeline.run under fair scheduling: the caller's thread, the worker
\* processes and the pool go on whenever they can
SpecLive == Spec /\ WF_runPos(Next)

\* JudgeAgent.run, _fallback_selection and JudgmentResult called directly
InitJudge == JudgeInit /\ PipeIdle /\ WorkerIdle /\ QueueIdle /\ MoreIdle
NextJudge ==
    \/ JudgeNext
    \/ JPipelineExcept
SpecJudge == InitJudge /\ [][NextJudge]_vars

\* batch_content_worker called directly
InitWorker == WorkerInit /\ PipeIdle /\ JudgeIdle /\ QueueIdle /\ MoreIdle
NextWorker == WorkerNext
SpecWorker == InitWorker /\ [][NextWorker]_vars

\* the QueueManager of a pipeline used directly, and run([]) on that pipeline
InitQueue == QueueInit /\ JudgeIdle /\ WorkerIdle /\ MoreIdle
NextQueue == QueueNext
SpecQueue == InitQueue /\ [][NextQueue]_vars

\* process_all_pois and process_all_pois_batched called one after the other
InitExec == ExecInit /\ JudgeIdle /\ WorkerIdle /\ QueueIdle /\ ObsIdle /\ QOnlyIdle
NextExec == ExecNext
SpecExec == InitExec /\ [][NextExec]_vars

\* run_with_queue_only called on a filled pipeline
InitQOnly == QOnlyInit /\ JudgeIdle /\ WorkerIdle /\ ObsIdle /\ ExecIdle
NextQOnly == QOnlyNext
SpecQOnly == InitQOnly /\ [][NextQOnly]_vars

\* run() and run_with_queue_only: either call on a pipeline. While run() goes
\* nobody reads the pipe of poi_queue, so its feeder thread is left out there
QoPositions ==
    {"qo_loop", "qo_process", "qo_put_results", "qo_judge", "qo_put_judgment",
     "qo_return", "qo_done"}
InitPipeline == Init \/ InitQOnly
NextPipeline ==
    \/ pc \notin QoPositions /\ PipeNext
    \/ pc \in QoPositions /\ QOnlyNext
SpecPipeline == InitPipeline /\ [][NextPipeline]_vars

-----------------------------------------------------------------------------
(* Properties *)

\* the indices of a list
Idx(list) == 1..Len(list)

\* the metadata value under a key, as a set (empty if the key is absent)
MetaOf(result, key) == {kv[2] : kv \in {m \in result.metadata : m[1] = key}}

\* `selected` is an item of `list` with the highest relevance_score, and among
\* the items with that score its category ranks highest in
\* history > youtube > spotify
IsBestOf(selected, list) ==
    /\ \E k \in Idx(list) : list[k] = selected
    /\ \A k \in Idx(list) :
          /\ list[k].relevance_score <= selected.relevance_score
          /\ list[k].relevance_score = selected.relevance_score
                => Priority(list[k].content_type) <= Priority(selected.content_type)

C2_CompletedWorkersKeepResult ==
    (pool = "returned" /\ path = "timeout") =>
        \A k \in Idx(results) :
            LET t == results[k].content_type
            IN  IF worker[t] = "exited"
                THEN results[k] = wresult[t]
                ELSE MetaOf(results[k], "error") = {"timeout"}

\* the names of the input list
InputNames == {pois[k] : k \in Idx(pois)}

\* the input names are pairwise distinct
DistinctNames == Cardinality(InputNames) = Len(pois)

\* the Judgment was made from results that carry the location's name
JudgmentOf(judgment, n) ==
    \A k \in Idx(judgment.all_content) : judgment.all_content[k].poi_name = n

\* C3: when run() returns, the list holds exactly one Judgment made from the
\* results of every name of the input (so as many as locations if their names
\* are distinct), and
\* every Judgment has selected_content.content_type = selected_type.
C3_OneJudgmentPerLocation ==
    pc = "done" =>
        /\ \A n \in InputNames :
              Cardinality({k \in Idx(returned) : JudgmentOf(returned[k], n)}) = 1
        /\ Len(returned) = Cardinality(InputNames)
        /\ Cardinality(InputNames) = Len(pois) => Len(returned) = Len(pois)
        /\ \A k \in Idx(returned) :
              returned[k].selected_content.content_type = returned[k].selected_type

\* C3 witness: run() returned for two locations with distinct names, the
\* judge having raised for one of them
C3_Witness ==
    /\ pc = "done"
    /\ Len(pois) = 2
    /\ pois[1] # pois[2]
    /\ Len(returned) = 2
    /\ \E k \in Idx(judge_log) : judge_log[k].raised
    /\ \E k \in Idx(judge_log) : ~judge_log[k].raised

InvalidInput ==
    \/ j_type # "list"
    \/ j_input = << >>
    \/ \E k \in Idx(j_input) : ~IsContentResult(j_input[k])

\* what makes run() leave the primary path, as the claim lists it: the call
\* fails, the text does not parse into a JSON object, "selected" or
\* "reasoning" is missing, or the named category matches no result
AbandonsPrimary(input_data, response) ==
    \/ response.kind = "cli_error"
    \/ response.fence = "open"
    \/ response.payload # "object"
    \/ ~({"selected", "reasoning"} \subseteq response.keys)
    \/ ~(\E k \in Idx(input_data) : input_data[k].content_type = response.selected)

\* C5 (as claimed): for a list of two or more ContentResults run() never
\* raises, and whenever the primary path is abandoned the Judgment returned is
\* the one of the fallback selection.
C5_JudgeNeverRaises ==
    (~InvalidInput /\ Len(j_input) >= 2) =>
        /\ j_pc # "raised"
        /\ (j_pc = "done" /\ AbandonsPrimary(j_input, j_response)) =>
               /\ IsBestOf(j_result.selected_content, j_input)
               /\ j_result.reasoning = "highest_relevance_score"

\* C6: the Judgment of _fallback_selection on a non-empty list selects an item
\* of the list with the highest relevance_score and, among the items with that
\* score, of the category ranking highest in history > youtube > spotify;
\* this fixes the selected category for a given input.
C6_FallbackSelectsBest ==
    (j_pc \in {"done", "done_direct"} /\ j_fallbacks = 1) =>
        /\ IsBestOf(j_result.selected_content, j_input)
        /\ j_result.selected_type = j_result.selected_content.content_type
        /\ \A k \in Idx(j_input) :
              IsBestOf(j_input[k], j_input)
                 => j_input[k].content_type = j_result.selected_type

\* C6 witness: _fallback_selection on a list whose first item ties at the
\* highest score with a later item of a higher-ranking category
C6_Witness ==
    /\ j_pc = "done_direct"
    /\ Len(j_input) >= 2
    /\ j_input[1].relevance_score = j_result.selected_content.relevance_score
    /\ j_input[1].content_type # j_result.selected_type

\* C7: every Judgment made by the single-option, primary and fallback paths of
\* the judge and by the pipeline's except branch has
\* selected_content.content_type = selected_type and selected_content among
\* all_content; JudgmentResult(...) with a selected_type other than
\* selected_content.content_type raises ValueError.
C7_JudgmentInvariant ==
    /\ j_pc \in {"done", "done_direct", "done_pipeline"} =>
          /\ j_result.selected_content.content_type = j_result.selected_type
          /\ \E k \in Idx(j_result.all_content) :
                j_result.all_content[k] = j_result.selected_content
    /\ j_pc = "constructed" =>
          (j_ctor.selected_type # j_ctor.selected_content.content_type
              => j_ctor.made.raised /\ j_ctor.made.exc = "ValueError")

\* C7 witness: JudgmentResult(...) was called with a valid selected_type that
\* is not the type of selected_content
C7_Witness ==
    /\ j_pc = "constructed"
    /\ j_ctor.selected_type \in ValidTypes
    /\ j_ctor.selected_type # j_ctor.selected_content.content_type
    /\ j_ctor.made.raised

\* C8: content_worker with one of the three agent types never raises; when the
\* agent raises, it returns a ContentResult of that type for that POI with
\* relevance_score 0 and the error text under metadata["error"].
C8_WorkerNeverRaises ==
    \A k \in Idx(w_calls) :
        LET c == w_calls[k]
            agent == AgentRun(c.agent_type, c.poi, c.reply)
        IN  c.agent_type \in ValidTypes =>
                /\ ~c.raised
                /\ agent.raised =>
                      /\ c.value.content_type = c.agent_type
                      /\ c.value.poi_name = c.poi
                      /\ c.value.relevance_score = 0
                      /\ MetaOf(c.value, "error") = {agent.msg}

\* C8 witness: a worker call whose agent raised (the LLM's JSON lacked the
\* agent's field) returned normally
C8_Witness ==
    \E k \in Idx(w_calls) :
        /\ w_calls[k].agent_type \in ValidTypes
        /\ w_calls[k].reply.kind = "no_field"
        /\ ~w_calls[k].raised

\* C9: content_worker with an agent type outside youtube, spotify, history
\* raises ValueError, and no agent was instantiated by that call.
C9_InvalidTypeRaisesValueError ==
    \A k \in Idx(w_calls) :
        w_calls[k].agent_type \notin ValidTypes =>
            /\ w_calls[k].raised
            /\ w_calls[k].exc = "ValueError"
            /\ ~w_calls[k].instantiated

\* C9 witness: the second task of a batch had an unknown agent type and the
\* call raised
C9_Witness ==
    /\ w_pc = "raised"
    /\ Len(w_calls) = 2
    /\ w_calls[2].agent_type \in OtherTypes
    /\ w_exc = "ValueError"

\* C10: when the pool cannot be created or the fan-out raises something other
\* than the timeout, process_poi still returns, and its list is exactly one
\* failure ContentResult per category, in task order: relevance_score 0, the
\* POI's name, and metadata with the error text and the error type.
C10_PoolFailureGivesFailureResults ==
    (pool = "returned" /\ path \in {"pool_error", "get_error"}) =>
        /\ Len(results) = Len(AgentTypes)
        /\ \A k \in Idx(results) :
              /\ results[k].content_type = AgentTypes[k]
              /\ results[k].relevance_score = 0
              /\ results[k].poi_name = CurrentPoi
              /\ \E e \in PoolErrors :
                    /\ MetaOf(results[k], "error") = {e.msg}
                    /\ MetaOf(results[k], "error_type") = {e.exc}

\* C10 witness: get() raised after one worker had completed
C10_Witness ==
    /\ pool = "returned"
    /\ path = "get_error"
    /\ \E t \in ValidTypes : worker[t] = "exited"

\* C11: when the deadline expires, for every worker that had not completed
\* the list process_poi returns holds a ContentResult of that worker's
\* category with the location's name, relevance_score 0 and metadata exactly
\* {"error": "timeout"}.
C11_TimeoutResultFields ==
    (pool = "returned" /\ path = "timeout") =>
        \A t \in ValidTypes :
            worker[t] = "terminated" =>
                \E k \in Idx(results) :
                    /\ results[k].content_type = t
                    /\ results[k].agent_name = t
                    /\ results[k].poi_name = CurrentPoi
                    /\ results[k].relevance_score = 0
                    /\ results[k].metadata = {<<"error", "timeout">>}

\* C11 witness: the deadline expired with no worker completed, for the second
\* of two locations
C11_Witness ==
    /\ pool = "returned"
    /\ path = "timeout"
    /\ idx = 2
    /\ \A t \in ValidTypes : worker[t] = "terminated"

\* every result of the location is a failure result
FullyFailed(res) == \A k \in Idx(res) : res[k].relevance_score = 0

\* the reasonings of JudgeAgent._fallback_selection and of the except branch
\* of ContentPipeline.run
FallbackReasonings == {"highest_relevance_score", "judge_agent_failed_using_fallback"}

\* the scores dict giving 0 to each of the three categories
ZeroScores == [t \in ValidTypes |-> 0]

FailureOverPositive(judgment) ==
    /\ judgment.selected_content.relevance_score = 0
    /\ \E k \in Idx(judgment.all_content) : judgment.all_content[k].relevance_score > 0

\* C13 (as claimed): no Judgment returned by run() selects a zero-score
\* failure result while a sibling result of the same location has a positive
\* score.
C13_NeverSelectsFailureOverPositive ==
    pc = "done" => \A k \in Idx(returned) : ~FailureOverPositive(returned[k])

\* C13 (amended): a Judgment made by the judge's fallback selection never
\* selects a zero-score failure while a sibling has a positive score. A
\* Judgment of the primary path selects the first result of the category the
\* LLM named, and a Judgment substituted because the judge raised selects the
\* location's first result, whatever the scores.
C13_OnlyFallbackAvoidsFailure ==
    pc = "done" =>
        \A k \in Idx(judge_log) :
            LET res == rb_vals[judge_log[k].poi_name]
            IN  /\ k <= Len(returned)
                /\ returned[k].all_content = res
                /\ (~judge_log[k].raised /\ judge_log[k].route = "fallback") =>
                       ~FailureOverPositive(returned[k])
                /\ (~judge_log[k].raised /\ judge_log[k].route = "primary") =>
                       /\ returned[k].selected_type = judge_log[k].named
                       /\ \E m \in Idx(res) :
                             /\ res[m] = returned[k].selected_content
                             /\ \A i \in 1..(m - 1) :
                                   res[i].content_type # judge_log[k].named
                /\ judge_log[k].raised => returned[k].selected_content = res[1]

\* C13 witness: run() returned a Judgment of the primary path that selects a
\* zero-score failure although a sibling scored higher, and a Judgment of the
\* fallback selection for a location with one failed and one positive result
C13_Witness ==
    /\ pc = "done"
    /\ Len(judge_log) = 2
    /\ ~judge_log[1].raised /\ judge_log[1].route = "primary"
    /\ FailureOverPositive(returned[1])
    /\ ~judge_log[2].raised /\ judge_log[2].route = "fallback"
    /\ \E m \in Idx(returned[2].all_content) : returned[2].all_content[m].relevance_score = 0
    /\ returned[2].selected_content.relevance_score > 0

\* C14 (as claimed): when run() returns for locations with distinct names, the
\* i-th Judgment's poi_name is the name of the i-th input location.
C14_OrderPreservedByName ==
    (pc = "done" /\ DistinctNames) =>
        /\ Len(returned) = Len(pois)
        /\ \A i \in Idx(pois) : returned[i].poi_name = pois[i]

\* C14 (amended): when run() returns for locations with distinct names, the
\* i-th Judgment is the one made from the i-th location's results, and its
\* poi_name is that location's name, except that the judge reports a location
\* whose name is empty as "Unknown POI".
C14_OrderPreserved ==
    (pc = "done" /\ DistinctNames) =>
        /\ Len(returned) = Len(pois)
        /\ Len(judge_log) = Len(pois)
        /\ \A i \in Idx(pois) :
              /\ returned[i].all_content = rb_vals[pois[i]]
              /\ JudgmentOf(returned[i], pois[i])
              /\ returned[i].poi_name =
                    IF pois[i] = "" /\ ~judge_log[i].raised THEN "Unknown POI" ELSE pois[i]

\* C14 witness: run() returned two Judgments for two locations with distinct
\* names given in either order, the one with the empty name judged normally
C14_Witness ==
    /\ pc = "done"
    /\ DistinctNames
    /\ Len(pois) = 2
    /\ pois[2] = ""
    /\ returned[1].poi_name = pois[1]
    /\ returned[2].poi_name = "Unknown POI"
    /\ returned[1].all_content # returned[2].all_content

\* C15: run([]) returns [] without raising; the step that takes it from its
\* call to its return leaves the three queues (their items and what the feeder
\* has written) unchanged, and neither the executor nor the judge has been
\* used when it has returned.
C15_RunEmptyFrame ==
    /\ [](pc = "done" /\ pois = << >> =>
             /\ returned = << >>
             /\ pool = "none"
             /\ rb_keys = << >>
             /\ judge_log = << >>
             /\ judgments = << >>)
    /\ [][(pc = "start" /\ pois = << >> /\ pc' = "done") =>
             /\ returned' = << >>
             /\ UNCHANGED <<poi_queue, results_queue, judgment_queue, flushed,
                            q_put_log, q_get_log>>]_vars

\* C15 witness: run([]) has just returned on a pipeline whose three queues
\* each held an item
C15_Witness ==
    /\ pc = "done"
    /\ pois = << >>
    /\ q_op.op = "run"
    /\ returned = << >>
    /\ poi_queue # << >>
    /\ results_queue # << >>
    /\ judgment_queue # << >>

\* the caller's put found its queue at capacity
PutAtCapacity == q_op.op = "put" /\ Len(q_op.before) = caps[q_op.queue]

\* C16: a put on a queue at capacity raises Full if block is False; with
\* block True and no get in between it waits and can only end with Full, when
\* its timeout elapses; after a Full the queue holds exactly what it held
\* before. A put on a queue below capacity succeeds.
C16_PutOnFullQueue ==
    q_op.op = "put" =>
        /\ (PutAtCapacity /\ ~q_op.block) => q_op.status = "Full"
        /\ (PutAtCapacity /\ q_op.block /\ q_op.others = 0) =>
               /\ q_op.status \in {"waiting", "Full"}
               /\ q_op.status = "Full" => q_op.timed
        /\ q_op.status = "Full" =>
               /\ PutAtCapacity
               /\ QueueOf(q_op.queue) = q_op.before
               /\ Len(QueueOf(q_op.queue)) = caps[q_op.queue]
               /\ q_put_log[q_op.queue] = q_get_log[q_op.queue] \o q_op.before
        /\ ~PutAtCapacity => q_op.status = "ok"
        /\ q_op.status = "ok" => (PutAtCapacity => q_op.block /\ q_op.others > 0)

\* C16 witness: a blocking put with a timeout on the full POI queue ended
\* with Full
C16_Witness ==
    /\ q_op.op = "put"
    /\ q_op.queue = "poi"
    /\ q_op.block
    /\ q_op.timed
    /\ q_op.status = "Full"
    /\ Len(poi_queue) = caps.poi

\* the caller's get found its queue empty (nothing buffered, nothing in the
\* pipe)
GetOnEmpty == q_op.op = "get" /\ q_op.before = << >>

\* C17: a get on an empty queue raises Empty if block is False; with block
\* True and no put in between it waits and can only end with Empty, when its
\* timeout elapses; after such an Empty the queue is still empty.
C17_GetOnEmptyQueue ==
    q_op.op = "get" =>
        /\ (GetOnEmpty /\ ~q_op.block) => q_op.status = "Empty"
        /\ (GetOnEmpty /\ q_op.block /\ q_op.others = 0) =>
               /\ q_op.status \in {"waiting", "Empty"}
               /\ q_op.status = "Empty" => q_op.timed
        /\ (GetOnEmpty /\ q_op.status = "Empty" /\ q_op.others = 0) =>
               /\ QueueOf(q_op.queue) = << >>
               /\ flushed[q_op.queue] = 0
        /\ (GetOnEmpty /\ q_op.status = "ok") => q_op.block /\ q_op.others > 0

\* C17 witness: a blocking get with a timeout on the empty results queue ended
\* with Empty, nothing having been put meanwhile
C17_Witness ==
    /\ q_op.op = "get"
    /\ q_op.queue = "results"
    /\ q_op.before = << >>
    /\ q_op.block
    /\ q_op.timed
    /\ q_op.others = 0
    /\ q_op.status = "Empty"
    /\ results_queue = << >>

Cleared == q_op.op \in {"clear_all", "pipeline_clear"}

\* C19 (as claimed): with no other process using the queues, clear_all() and
\* ContentPipeline.clear() return without raising and leave all three queues
\* empty, so that a non-blocking get that follows raises Empty.
C19_ClearAllLeavesEmpty ==
    /\ Cleared =>
          /\ q_op.status = "ok"
          /\ poi_queue = << >>
          /\ results_queue = << >>
          /\ judgment_queue = << >>
    /\ (q_op.op = "get" /\ ~q_op.block /\ q_op.prev \in {"clear_all", "pipeline_clear"}
           /\ q_op.quiet) =>
          q_op.status = "Empty"

\* JudgeAgent.run has ended, by returning or by raising
RunEnded == j_pc \in {"done", "raised", "skipped", "done_pipeline"}

\* C20 (as claimed): run() raises AgentError, without having called the LLM,
\* exactly when its argument is invalid; for a non-empty list of
\* ContentResults it raises nothing.
C20_AgentErrorExactlyOnInvalidInput ==
    RunEnded =>
        /\ InvalidInput => (j_exc = "AgentError" /\ j_calls = 0)
        /\ ~InvalidInput => j_exc = "none"

\* C21: run() on a list of exactly one ContentResult returns a Judgment whose
\* selected_content is that item, whose selected_type is its category, whose
\* scores map that category alone to its relevance_score, whose all_content is
\* the list and whose reasoning says it was the only option; the LLM was not
\* called and the fallback selection was not used.
C21_SingleOptionVerbatim ==
    (j_pc \in {"done", "raised"} /\ ~InvalidInput /\ Len(j_input) = 1) =>
        /\ j_pc = "done"
        /\ j_result.selected_content = j_input[1]
        /\ j_result.selected_type = j_input[1].content_type
        /\ DOMAIN j_result.scores = {j_input[1].content_type}
        /\ j_result.scores[j_input[1].content_type] = j_input[1].relevance_score
        /\ j_result.all_content = j_input
        /\ j_result.reasoning = "only_option"
        /\ j_response = NoResult
        /\ j_calls = 0
        /\ j_fallbacks = 0

\* C21 witness: run() returned for a single failure result (score 0) of a
\* location with an empty name
C21_Witness ==
    /\ j_pc = "done"
    /\ Len(j_input) = 1
    /\ j_input[1].relevance_score = 0
    /\ j_input[1].poi_name = ""
    /\ j_result.selected_content = j_input[1]
    /\ j_result.poi_name = "Unknown POI"

\* the steps of run() on a valid list, as the claim lists them: the single
\* option, the primary attempt (call, parse, check), its success, and the
\* fallback after its failure
JudgeSteps ==
    {<<"start", "done">>, <<"start", "parse">>, <<"start", "fallback">>,
     <<"parse", "check">>, <<"parse", "fallback">>,
     <<"check", "done">>, <<"check", "fallback">>,
     <<"fallback", "done">>}

\* a step of run() itself (not of a direct call of _fallback_selection or of
\* the JudgmentResult constructor, and not of the caller's except branch)
RunStep ==
    /\ j_pc \in {"start", "parse", "check", "fallback"}
    /\ j_pc' # j_pc
    /\ j_pc' \notin {"done_direct", "constructed"}

\* C23 (as claimed): an invocation of run() on a non-empty list of
\* ContentResults calls the LLM at most once and enters the fallback at most
\* once, and it follows start -> done (single option), or start -> primary
\* attempt -> done, or start -> primary attempt -> fallback -> done; it ends
\* in no other way.
C23_JudgeStateMachine ==
    /\ [](j_calls <= 1 /\ j_fallbacks <= 1)
    /\ [][(~InvalidInput /\ RunStep) => <<j_pc, j_pc'>> \in JudgeSteps]_vars
    /\ []((~InvalidInput /\ j_pc = "start" /\ Len(j_input) = 1) => j_calls = 0)

\* C26: whatever puts, gets and clear_all calls the caller and another process
\* make, each queue holds between 0 and the number of items it was constructed
\* for (each queue with its own capacity), the items in the pipe are among
\* them, and the items put and not yet got are exactly the ones it holds.
C26_DepthWithinCapacity ==
    \A q \in QueueNames :
        /\ 0 <= Len(QueueOf(q))
        /\ Len(QueueOf(q)) <= caps[q]
        /\ 0 <= flushed[q]
        /\ flushed[q] <= Len(QueueOf(q))
        /\ Len(q_put_log[q]) - Len(q_get_log[q]) = Len(QueueOf(q))

\* C26 witness: the results queue is at its capacity, which differs from the
\* capacity of the two other queues, after puts by the caller
C26_Witness ==
    /\ Len(results_queue) = caps.results
    /\ caps.results # caps.poi
    /\ caps.results # caps.judgment
    /\ q_op.op = "put"
    /\ q_op.queue = "results"
    /\ q_op.status = "ok"

\* C27 (as claimed): run(pois) eventually returns, whatever the list and the
\* sizes of the queues.
C27_RunEventuallyReturns == <>(pc = "done")

\* sum(len(results) for results in results_by_poi.values())
RECURSIVE TotalResults(_, _)
TotalResults(keys, vals) ==
    IF keys = << >> THEN 0
    ELSE Len(vals[Head(keys)]) + TotalResults(Tail(keys), vals)

\* queue `new` is queue `old` with items added at its end
Extends(new, old) ==
    /\ Len(new) >= Len(old)
    /\ SubSeq(new, 1, Len(old)) = old

\* C28: run() only puts. No step of run() removes or reorders an item of a
\* queue; when run(pois) has returned on a pipeline whose queues were empty,
\* the pending-locations queue holds the len(pois) locations in input order,
\* the results queue holds as many results as the executor's map (every
\* result of the map, each location's in the order of its list), and the
\* judgments queue holds the returned Judgments in the order of the list.
C28_RunOnlyPuts ==
    /\ [][/\ Extends(poi_queue', poi_queue)
          /\ Extends(results_queue', results_queue)
          /\ Extends(judgment_queue', judgment_queue)]_vars
    /\ [](pc = "done" =>
             /\ poi_queue = pois
             /\ Len(results_queue) = TotalResults(rb_keys, rb_vals)
             /\ \A k \in Idx(rb_keys) : \A m \in Idx(rb_vals[rb_keys[k]]) :
                   \E i \in Idx(results_queue) :
                      /\ results_queue[i] = rb_vals[rb_keys[k]][m]
                      /\ m < Len(rb_vals[rb_keys[k]])
                            => results_queue[i + 1] = rb_vals[rb_keys[k]][m + 1]
             /\ judgment_queue = returned)

\* C28 witness: run() returned two Judgments for two locations with distinct
\* names: 2 locations, 6 results and 2 Judgments are queued
C28_Witness ==
    /\ pc = "done"
    /\ Len(returned) = 2
    /\ Len(poi_queue) = 2
    /\ poi_queue[1] # poi_queue[2]
    /\ Len(results_queue) = 6
    /\ judgment_queue = returned

\* the categories whose worker process is alive (running its task, or done
\* with it and still in the pool)
LiveWorkers == {t \in ValidTypes : worker[t] \in {"running", "done"}}

\* C24: at every moment at most 3 worker processes are alive, all of them
\* launched for the location process_all_pois is at, inside an open pool; when
\* process_poi is about to return (get() returned, the deadline expired, or
\* the pool failed) and between two process_poi calls no worker process is
\* alive.
C24_OneLocationAtATime ==
    /\ Cardinality(LiveWorkers) <= 3
    /\ \A t \in LiveWorkers :
          /\ launched[t] = idx
          /\ pc = "process"
          /\ pool = "open"
    /\ \A t \in LiveWorkers : \A u \in LiveWorkers : launched[t] = launched[u]
    /\ pool \in {"returned", "none"} => LiveWorkers = {}
    /\ pool = "returned" => path \in {"completed", "timeout", "pool_error", "get_error"}
    /\ Len(fan_log) = (IF pc = "process" THEN idx - 1
                       ELSE IF pc \in {"start", "enqueue_pois"} \/ pois = << >> THEN 0
                       ELSE Len(pois))

\* C24 witness: the three workers of the second location are alive, the
\* fan-out of the first location having ended by the deadline
C24_Witness ==
    /\ pool = "open"
    /\ idx = 2
    /\ Cardinality(LiveWorkers) = 3
    /\ \A t \in ValidTypes : launched[t] = 2
    /\ fan_log = <<pois[1]>>
    /\ pois[1] # pois[2]
    /\ \E k \in Idx(rb_vals[pois[1]]) : MetaOf(rb_vals[pois[1]][k], "error") = {"timeout"}

\* the index of the first location with name n, and of the last one
FirstIndex(n) == CHOOSE i \in Idx(pois) : pois[i] = n /\ \A m \in 1..(i - 1) : pois[m] # n
LastIndex(n) == CHOOSE i \in Idx(pois) : pois[i] = n /\ \A m \in (i + 1)..Len(pois) : pois[m] # n

\* the position of name n among the distinct names in the order of their
\* first locations
Rank(n) == Cardinality({pois[m] : m \in 1..FirstIndex(n)})

\* process_poi has returned and process_all_pois stores its list
StoresResults == pool = "returned" /\ pool' = "none"

OnePerCategory(res) ==
    /\ Len(res) = 3
    /\ \A t \in ValidTypes : Cardinality({k \in Idx(res) : res[k].content_type = t}) = 1

Dequeued == q_get_log["poi"]

\* run_with_queue_only has caught an exception
Failed == qo_exc # "none"

\* C30: run_with_queue_only(k) never raises: what get_poi or the judge raise
\* ends the loop, and the call returns its list. It dequeues at most k
\* locations, oldest first; the locations not dequeued stay in the queue in
\* their order and none is put back. The list returned holds the Judgments of
\* the first locations dequeued, in dequeue order: of all of them when the
\* loop ran through (k of them) or a dequeue timed out on an empty pipe, of
\* all but the last one when the last one's judging raised. After the first
\* failure nothing is dequeued, enqueued or judged any more.
C30_QueueOnlyStopsAtFirstFailure ==
    /\ [](pc \in {"qo_loop", "qo_process", "qo_put_results", "qo_judge",
                  "qo_put_judgment", "qo_return", "qo_done"} =>
             /\ Len(Dequeued) <= poi_count
             /\ qo_i <= poi_count
             /\ Dequeued \o poi_queue = pois
             /\ Len(judgments) <= Len(Dequeued)
             /\ \A m \in Idx(judgments) : JudgmentOf(judgments[m], Dequeued[m])
             /\ Failed => pc \in {"qo_return", "qo_done"}
             /\ qo_exc = "Empty" => Len(judgments) = Len(Dequeued)
             /\ qo_exc \notin {"none", "Empty"} => Len(judgments) = Len(Dequeued) - 1
             /\ pc = "qo_done" =>
                   /\ returned = judgments
                   /\ ~Failed => Len(returned) = poi_count)
    /\ [][/\ ~Failed /\ qo_exc' = "Empty" => flushed["poi"] = 0
          /\ Failed => /\ UNCHANGED <<poi_queue, results_queue, judgment_queue>>
                       /\ UNCHANGED <<judgments, qo_exc, q_get_log, fan_log, judge_log>>
                       /\ pc' \in {pc, "qo_done"}]_vars

\* C30 witness: run_with_queue_only(3) on three queued locations: two are
\* judged, the judging of the third raises; the call returns the first two
\* Judgments and the queue is empty
C30_Witness ==
    /\ pc = "qo_done"
    /\ poi_count = 3
    /\ Len(pois) = 3
    /\ qo_exc = "TypeError"
    /\ Len(returned) = 2
    /\ Len(Dequeued) = 3
    /\ poi_queue = << >>
    /\ Len(results_queue) = 9

\* C30, a second case: the dequeue of the second of two queued locations
\* times out before the feeder thread has written it; it stays in the queue
C30_WitnessTimeout ==
    /\ pc = "qo_done"
    /\ qo_exc = "Empty"
    /\ Len(pois) = 2
    /\ Len(returned) = 1
    /\ Len(poi_queue) = 1


\* the locations put on poi_queue so far, oldest first: those taken from it
\* and those still on it
Enqueued == Dequeued \o poi_queue

\* list `part` stands in list `whole`, its items next to each other in order
IsInfix(part, whole) ==
    \E s \in 0..(Len(whole) - Len(part)) : SubSeq(whole, s + 1, s + Len(part)) = part

\* the list the judge is handed at the current position of run() or of
\* run_with_queue_only
JudgedList == IF pc = "judge" THEN rb_vals[rb_keys[idx]] ELSE results

\* C25: in run() and in run_with_queue_only alike, a fan-out runs only for a
\* location that has been enqueued (the fan-outs go through the enqueued
\* locations in order); a ContentResult is enqueued only after the fan-out of
\* its location has returned; the judge is called for a location only when
\* the whole list it is handed is on the results queue; and a Judgment is
\* enqueued only after the judge was called and while all the results it was
\* made from (its all_content) are on the results queue.
C25_EventOrder ==
    /\ [](/\ Extends(Enqueued, fan_log)
          /\ pool # "none" \/ pc = "qo_process" =>
                /\ Len(fan_log) < Len(Enqueued)
                /\ Enqueued[Len(fan_log) + 1] = (IF pc = "qo_process" THEN qo_poi
                                                  ELSE CurrentPoi)
          /\ \A k \in Idx(results_queue) : \E i \in Idx(fan_log) :
                results_queue[k].poi_name = fan_log[i]
          /\ Len(results_queue) <= 3 * Len(fan_log)
          /\ Len(judgment_queue) <= Len(judge_log)
          /\ \A m \in Idx(judgment_queue) :
                IsInfix(judgment_queue[m].all_content, results_queue))
    /\ [][/\ judge_log' # judge_log => IsInfix(JudgedList, results_queue)
          /\ results_queue' # results_queue =>
                /\ pool = "none"
                /\ results_queue'[Len(results_queue')].poi_name = fan_log[Len(fan_log)]
                      \/ pc = "enqueue_results"]_vars

\* C25 witness: run() on two locations of different names has returned: both
\* are on the queue, both fan-outs ran, six results and two Judgments are
\* queued
C25_Witness ==
    /\ pc = "done"
    /\ Len(pois) = 2
    /\ pois[1] # pois[2]
    /\ fan_log = pois
    /\ Len(results_queue) = 6
    /\ Len(judge_log) = 2
    /\ Len(judgment_queue) = 2

\* C25, the same for run_with_queue_only(2) on two queued locations
C25_WitnessQueueOnly ==
    /\ pc = "qo_done"
    /\ Len(pois) = 2
    /\ pois[1] # pois[2]
    /\ fan_log = pois
    /\ Len(results_queue) = 6
    /\ Len(judge_log) = 2
    /\ Len(judgment_queue) = 2

====
